---------------------------- MODULE Spec2Model ----------------------------
(***************************************************************************)
(* Meta Vault math SDK: the 1024-ways evaluator (ways_evaluator.py), the   *)
(* symbol transformations (game_override.py), the game engine              *)
(* (gamestate.py) and the free-spin session of games/meta_vault.           *)
(*                                                                         *)
(* Numbers.  Paytable values and payouts are floats in the source with one *)
(* decimal; here they are integers counted in tenths of a bet unit.  The   *)
(* averaged wild multiplier (a float quotient in the source) is kept as    *)
(* the exact fraction [num, den].  Bets are whole numbers.                 *)
(*                                                                         *)
(* Indices.  Reel and row indices in win positions are 0-based as in the   *)
(* source; TLA+ sequences are 1-based, so cell (reel_idx, row_idx) of a    *)
(* board b is b[reel_idx + 1][row_idx + 1].                                *)
(***************************************************************************)
EXTENDS Integers, Sequences, FiniteSets, TLC

(***************************************************************************)
(* game_config.py: the symbol table.  A symbol is its enum value.          *)
(***************************************************************************)
Symbol ==
    {"H1", "H2", "H3", "H4", "L1", "L2", "L3", "L4", "L6",
     "W", "Scatter", "Collector", "2X", "3X"}

REEL_COUNT == 5

ROWS_PER_REEL == 4

\* Paytable in tenths of the bet: PAYTABLE[symbol][count].
PAYTABLE ==
    [s \in {"H1", "H2", "H3", "H4", "L1", "L2", "L3", "L4", "L6"} |->
        CASE s = "H1" -> (2 :> 10 @@ 3 :> 50 @@ 4 :> 250 @@ 5 :> 1000)
          [] s = "H2" -> (3 :> 30 @@ 4 :> 150 @@ 5 :> 500)
          [] s = "H3" -> (3 :> 20 @@ 4 :> 100 @@ 5 :> 400)
          [] s = "H4" -> (3 :> 15 @@ 4 :> 80 @@ 5 :> 300)
          [] s = "L1" -> (3 :> 10 @@ 4 :> 50 @@ 5 :> 200)
          [] s = "L2" -> (3 :> 8 @@ 4 :> 40 @@ 5 :> 150)
          [] s = "L3" -> (3 :> 6 @@ 4 :> 30 @@ 5 :> 120)
          [] s = "L4" -> (3 :> 5 @@ 4 :> 25 @@ 5 :> 100)
          [] s = "L6" -> (3 :> 4 @@ 4 :> 20 @@ 5 :> 80)]

WILD_SYMBOLS == {"W", "2X", "3X"}

WILD_MULTIPLIERS == ("W" :> 1 @@ "2X" :> 2 @@ "3X" :> 3)

NON_SUBSTITUTABLE == {"Scatter", "Collector"}

(***************************************************************************)
(* Bounds of the model and the boards the checks run over.  A board is     *)
(* REEL_COUNT reels, each drawn independently from the first ReelKinds     *)
(* reels of ReelCatalogue.                                                 *)
(***************************************************************************)
ReelKinds == 6

TransformReelKinds == 3

MaxBet == 2

MaxCollectorCount == 16

MaxCalls == 2

MaxAdd == 15

MaxFreeSpins == 3

ReelCatalogue ==
    << <<"H4", "H3", "H2", "L1">>,
       <<"Collector", "Scatter", "W", "2X">>,
       <<"H1", "L2", "L3", "L4">>,
       <<"2X", "L2", "L3", "L4">>,
       <<"3X", "L2", "L3", "L4">>,
       <<"H1", "H1", "H1", "H1">>,
       <<"L1", "L2", "L3", "L4">>,
       <<"H1", "W", "H4", "L6">> >>

ReelChoices(n) ==
    {ReelCatalogue[i] : i \in 1..(IF n < Len(ReelCatalogue) THEN n ELSE Len(ReelCatalogue))}

Boards(n) == [1..REEL_COUNT -> ReelChoices(n)]

Bets == 1..MaxBet

\* The boards and bets of the engine's spins, the counts of add_collectors
\* and the balances a GameState is constructed with.
EngineBoards ==
    {b \in [1..REEL_COUNT -> {ReelCatalogue[1], ReelCatalogue[2]}] :
        b[4] = b[3] /\ b[5] = b[3]}

EngineBets == {1, 2}

AddCounts == 1..MaxAdd

InitialBalances == {15, 10000}

\* The boards of a free-spin session, by symbol name as the meta_vault
\* reel strips give them.
SessionBoards ==
    {b \in [1..REEL_COUNT -> {<<"H4", "H3", "H2", "L1">>, <<"G", "S", "W2X", "H1">>}] :
        b[4] = b[3] /\ b[5] = b[3]}

VARIABLES
    component,  \* which program of the repository the behaviour runs
    \* WaysEvaluator
    reels,      \* self.reels
    bet,        \* self.bet
    wins,       \* self.wins, as the set of win records
    evaluated,  \* whether evaluate() has returned
    \* game_override.apply_transformations
    arg_reels,              \* the argument reels
    arg_collector_count,    \* the argument collector_count
    transformed_reels,      \* the returned board
    applied_transformations,\* the returned list
    returned,               \* whether the call has returned
    \* gamestate.py: GameEngine.state (a GameState) and the last call
    collector_count,
    current_bet,            \* in bet units
    balance,                \* in tenths of a bet unit
    phase,
    transformation_level,
    infinite_breach_active,
    pending_events,
    result,                 \* what the last GameEngine.spin call returned or raised
    calls,                  \* number of calls made so far
    \* games/meta_vault: the GameState of one simulation
    gametype,
    fs_pc,                  \* position in run_freespin_from_base / run_freespin
    board,                  \* self.board, cells are [name, multiplier]
    raw_board,              \* self.raw_board
    gold_collected,
    transformed_symbols,
    fs,
    tot_fs,
    records,                \* what self.record(...) was called with, in order
    book_events             \* what self.book.add_event(...) was called with, in order

evalVars == <<reels, bet, wins, evaluated>>

transformVars ==
    <<arg_reels, arg_collector_count, transformed_reels, applied_transformations, returned>>

engineVars ==
    <<collector_count, current_bet, balance, phase, transformation_level,
      infinite_breach_active, pending_events, result, calls>>

sessionVars ==
    <<gametype, fs_pc, board, raw_board, gold_collected, transformed_symbols,
      fs, tot_fs, records, book_events>>

VARIABLES
    \* gamestate.py: a ReelGenerator and the last call on it
    arg_reel_weights,       \* the argument of the constructor
    reel_weights,           \* self.reel_weights
    weighted_symbols,       \* self.weighted_symbols
    gen_pc,                 \* "new", "constructed", or what generate_spin did last
    spin_reels              \* what generate_spin returned last

generatorVars == <<arg_reel_weights, reel_weights, weighted_symbols, gen_pc, spin_reels>>

VARIABLES
    \* ways_evaluator.py: a WaysEvaluator built from any grid
    grid_pc                 \* "new", "constructed", or what evaluate() did

gridVars == <<grid_pc>>

VARIABLES
    \* ways_evaluator.py: validate_rtp, the call in progress or returned last
    num_simulations,        \* the argument num_simulations
    arg_bet,                \* the argument bet
    spins_done,             \* iterations of the loop so far
    total_wagered,          \* in tenths of a bet unit
    total_won,              \* in tenths of a bet unit
    hit_count,
    rtp_pc,                 \* "new", "loop" or "returned"
    stats,                  \* the returned dict
    previous_stats,         \* the dict the call before returned
    rtp_calls               \* number of calls made so far

harnessVars ==
    <<num_simulations, arg_bet, spins_done, total_wagered, total_won, hit_count,
      rtp_pc, stats, previous_stats, rtp_calls>>

VARIABLES
    \* books.py: serialize_event / deserialize_event
    event,                  \* the event dict passed to serialize_event
    serialized,             \* what serialize_event returned or raised
    deserialized,           \* what deserialize_event returned
    books_pc                \* "new", "serialized" or "deserialized"

booksVars == <<event, serialized, deserialized, books_pc>>

VARIABLES
    \* books.py: an EventQueue and the threads that call it
    max_size,               \* the argument of the constructor
    _queue,                 \* the contents of self._queue, oldest first
    lock_holder,            \* the thread that holds self._lock, or 0
    thread_pc,              \* where each thread is: "idle", or inside flush or clear
    flush_events,           \* the list `events` of each thread's flush
    last_call,              \* the call that returned last and what it returned
    push_calls,             \* number of push calls so far
    pushed,                 \* the events push returned True for, in order
    delivered,              \* the events pop and flush took out, in order
    cleared                 \* number of events clear took out

queueVars ==
    <<max_size, _queue, lock_holder, thread_pc, flush_events, last_call,
      push_calls, pushed, delivered, cleared>>

VARIABLES
    \* the threshold functions of game_config.py, game_override.py and
    \* games/meta_vault/game_calculations.py, called with one collector count
    persistent_data,            \* self.persistent_data of GameCalculations
    calc_transform_map,         \* the local transform_map of calculate_win
    active_transformations,     \* what get_active_transformations returned
    level_returned,             \* what calculate_transformation_level returned
    breach_multiplier,          \* what get_infinite_breach_multiplier returned
    threshold_calls             \* the functions that have returned

thresholdVars ==
    <<persistent_data, calc_transform_map, active_transformations, level_returned,
      breach_multiplier, threshold_calls>>

VARIABLES
    \* games/meta_vault/game_override.py: calculate_wild_multiplier_total
    winning_positions,          \* the argument winning_positions
    wild_multiplier_total,      \* what the call returned
    wild_pc                     \* "new" or "returned"

wildVars == <<winning_positions, wild_multiplier_total, wild_pc>>

VARIABLES
    \* games/meta_vault/game_override.py: check_freespin_entry
    force_freegame,             \* conditions["force_freegame"]
    repeat,                     \* self.repeat
    entry_returned,             \* what the call returned
    entry_pc                    \* "call" or "returned"

entryVars == <<force_freegame, repeat, entry_returned, entry_pc>>

toolVars ==
    <<generatorVars, gridVars, harnessVars, booksVars, queueVars, thresholdVars, wildVars,
      entryVars>>

\* The variables of the other tools, for each tool.
exceptGenerator == <<gridVars, harnessVars, booksVars, queueVars, thresholdVars, wildVars,
      entryVars>>

exceptGrid == <<generatorVars, harnessVars, booksVars, queueVars, thresholdVars, wildVars,
      entryVars>>

exceptHarness == <<gridVars, booksVars, queueVars, thresholdVars, wildVars,
      entryVars>>

exceptBooks == <<generatorVars, gridVars, harnessVars, queueVars, thresholdVars, wildVars,
      entryVars>>

exceptQueue == <<generatorVars, gridVars, harnessVars, booksVars, thresholdVars, wildVars,
      entryVars>>

gameVars == <<evalVars, transformVars, engineVars, sessionVars>>

vars == <<component, evalVars, transformVars, engineVars, sessionVars, toolVars>>

NoResult == [returned |-> "nothing"]

\* A component that takes no part in a specification stays as it is here.
EvalIdle == reels = <<>> /\ bet = 0 /\ wins = {} /\ evaluated = FALSE

TransformIdle ==
    /\ arg_reels = <<>> /\ arg_collector_count = 0
    /\ transformed_reels = <<>> /\ applied_transformations = <<>>
    /\ returned = FALSE

EngineIdle ==
    /\ collector_count = 0 /\ current_bet = 1 /\ balance = 10000
    /\ phase = "idle" /\ transformation_level = 0
    /\ infinite_breach_active = FALSE /\ pending_events = <<>>
    /\ result = NoResult /\ calls = 0

SessionIdle ==
    /\ gametype = "basegame" /\ fs_pc = "absent"
    /\ board = <<>> /\ raw_board = <<>>
    /\ gold_collected = 0 /\ transformed_symbols = {}
    /\ fs = 0 /\ tot_fs = 0 /\ records = <<>> /\ book_events = <<>>

GeneratorIdle ==
    /\ arg_reel_weights = "none" /\ reel_weights = <<>>
    /\ weighted_symbols = <<>> /\ gen_pc = "absent" /\ spin_reels = <<>>

GridIdle == grid_pc = "absent"

\* A quotient of the source, kept as the exact fraction num / den.
Fraction(n, d) == [num |-> n, den |-> d]

NoStats ==
    [rtp |-> Fraction(0, 1), hit_rate |-> Fraction(0, 1),
     total_wagered |-> 0, total_won |-> 0, simulations |-> 0 - 1]

HarnessIdle ==
    /\ num_simulations = 0 /\ arg_bet = 0 /\ spins_done = 0
    /\ total_wagered = 0 /\ total_won = 0 /\ hit_count = 0
    /\ rtp_pc = "absent" /\ stats = NoStats /\ previous_stats = NoStats
    /\ rtp_calls = 0

\* A Python value and a JSON text are both trees of nodes of one shape:
\* the kind, the text of a scalar, the items of a container.
Node(k, t, i) == [kind |-> k, text |-> t, items |-> i]

PyNone == Node("None", "None", <<>>)

BooksIdle ==
    /\ event = PyNone /\ serialized = [outcome |-> "nothing", json |-> PyNone]
    /\ deserialized = PyNone /\ books_pc = "absent"

NoCall == [op |-> "none", thread |-> 0, returned |-> PyNone]

QueueIdle ==
    /\ max_size = 0 /\ _queue = <<>> /\ lock_holder = 0
    /\ thread_pc = <<>> /\ flush_events = <<>> /\ last_call = NoCall
    /\ push_calls = 0 /\ pushed = <<>> /\ delivered = <<>> /\ cleared = 0

ThresholdIdle ==
    /\ persistent_data = <<>> /\ calc_transform_map = <<>>
    /\ active_transformations = <<>> /\ level_returned = 0
    /\ breach_multiplier = 0 /\ threshold_calls = {}

WildIdle == winning_positions = <<>> /\ wild_multiplier_total = 0 /\ wild_pc = "absent"

EntryIdle ==
    /\ force_freegame = FALSE /\ repeat = FALSE /\ entry_returned = FALSE
    /\ entry_pc = "absent"

\* The functions called on their own take no part.
FunctionIdle == ThresholdIdle /\ WildIdle /\ EntryIdle

ToolIdle ==
    /\ GeneratorIdle /\ GridIdle /\ HarnessIdle /\ BooksIdle /\ QueueIdle
    /\ ThresholdIdle /\ WildIdle /\ EntryIdle

GameIdle == EvalIdle /\ TransformIdle /\ EngineIdle /\ SessionIdle

(***************************************************************************)
(* ways_evaluator.py: WaysEvaluator                                        *)
(***************************************************************************)
\* _get_payable_symbols
get_payable_symbols == DOMAIN PAYTABLE

\* symbol in WILD_SYMBOLS and target_symbol not in NON_SUBSTITUTABLE
substitutes_for_any(symbol, target_symbol) == symbol \in WILD_SYMBOLS

substitutes_for(symbol, target_symbol) ==
    symbol \in WILD_SYMBOLS /\ target_symbol \notin NON_SUBSTITUTABLE

\* The matches of one reel, rows in order: <<row_idx, multiplier>> pairs
\* (the inner loop of _evaluate_symbol).
RECURSIVE reel_row_matches(_, _, _, _)
reel_row_matches(grid, reel_idx, target_symbol, row_idx) ==
    IF row_idx >= ROWS_PER_REEL THEN <<>>
    ELSE LET symbol == grid[reel_idx + 1][row_idx + 1]
             rest == reel_row_matches(grid, reel_idx, target_symbol, row_idx + 1)
         IN  IF symbol = target_symbol
                 THEN << <<row_idx, 1>> >> \o rest
             ELSE IF substitutes_for(symbol, target_symbol)
                 THEN << <<row_idx, WILD_MULTIPLIERS[symbol]>> >> \o rest
             ELSE rest

\* reel_matches: the outer loop of _evaluate_symbol, which breaks at the
\* first reel without a match.
RECURSIVE scan_reels_skipping(_, _, _)
scan_reels_skipping(grid, target_symbol, reel_idx) ==
    IF reel_idx >= REEL_COUNT THEN <<>>
    ELSE LET matches == reel_row_matches(grid, reel_idx, target_symbol, 0)
         IN  IF matches = <<>> THEN scan_reels_skipping(grid, target_symbol, reel_idx + 1)
             ELSE <<matches>> \o scan_reels_skipping(grid, target_symbol, reel_idx + 1)

RECURSIVE scan_reels_no_break(_, _, _)
scan_reels_no_break(grid, target_symbol, reel_idx) ==
    IF reel_idx >= REEL_COUNT THEN <<>>
    ELSE <<reel_row_matches(grid, reel_idx, target_symbol, 0)>>
         \o scan_reels_no_break(grid, target_symbol, reel_idx + 1)

RECURSIVE scan_reels(_, _, _)
scan_reels(grid, target_symbol, reel_idx) ==
    IF reel_idx >= REEL_COUNT THEN <<>>
    ELSE LET matches == reel_row_matches(grid, reel_idx, target_symbol, 0)
         IN  IF matches = <<>> THEN <<>>
             ELSE <<matches>> \o scan_reels(grid, target_symbol, reel_idx + 1)

\* min_match = 2 if target_symbol == Symbol.H1 else 3
min_match_all_three(target_symbol) == 3

min_match(target_symbol) == IF target_symbol = "H1" THEN 2 ELSE 3

\* new_multiplier = current_multiplier * multiplier
new_multiplier_additive(current_multiplier, multiplier) ==
    current_multiplier + multiplier

new_multiplier(current_multiplier, multiplier) ==
    current_multiplier * multiplier

\* _enumerate_way_multipliers: the sum over all ways of the way's multiplier.
\* way_sum is its for-loop from the k-th match of the reel on.
RECURSIVE enumerate_way_multipliers(_, _, _), way_sum(_, _, _, _)
enumerate_way_multipliers(reel_matches, reel_idx, current_multiplier) ==
    IF reel_idx >= Len(reel_matches) THEN current_multiplier
    ELSE way_sum(reel_matches, reel_idx, current_multiplier, 1)

way_sum(reel_matches, reel_idx, current_multiplier, k) ==
    IF k > Len(reel_matches[reel_idx + 1]) THEN 0
    ELSE enumerate_way_multipliers(
             reel_matches, reel_idx + 1,
             new_multiplier(current_multiplier, reel_matches[reel_idx + 1][k][2]))
         + way_sum(reel_matches, reel_idx, current_multiplier, k + 1)

\* ways = product of len(matches)
RECURSIVE ways_added(_, _)
ways_added(reel_matches, i) ==
    IF i > Len(reel_matches) THEN 0
    ELSE Len(reel_matches[i]) + ways_added(reel_matches, i + 1)

RECURSIVE ways_product(_, _)
ways_product(reel_matches, i) ==
    IF i > Len(reel_matches) THEN 1
    ELSE Len(reel_matches[i]) * ways_product(reel_matches, i + 1)

\* _calculate_ways_and_multiplier: <<ways, avg_multiplier>>
calculate_ways_and_multiplier(reel_matches) ==
    IF reel_matches = <<>> THEN <<0, [num |-> 1, den |-> 1]>>
    ELSE LET ways == ways_product(reel_matches, 1)
             total_multiplier_sum == enumerate_way_multipliers(reel_matches, 0, 1)
         IN  <<ways, IF ways > 0 THEN [num |-> total_multiplier_sum, den |-> ways]
                                 ELSE [num |-> 1, den |-> 1]>>

\* _get_winning_positions
RECURSIVE get_winning_positions_first_row(_, _)
get_winning_positions_first_row(reel_matches, i) ==
    IF i > Len(reel_matches) THEN <<>>
    ELSE << <<i - 1, reel_matches[i][1][1]>> >>
         \o get_winning_positions_first_row(reel_matches, i + 1)

RECURSIVE get_winning_positions(_, _)
get_winning_positions(reel_matches, i) ==
    IF i > Len(reel_matches) THEN <<>>
    ELSE [k \in 1..Len(reel_matches[i]) |-> <<i - 1, reel_matches[i][k][1]>>]
         \o get_winning_positions(reel_matches, i + 1)

\* final_payout = base_payout * bet * ways * total_multiplier.  The product
\* ways * total_multiplier is taken first: it is a whole number, since the
\* denominator of the average is the ways count.
final_payout_without_ways(base_payout, b, ways, total_multiplier) ==
    base_payout * b * (total_multiplier.num \div total_multiplier.den)

final_payout(base_payout, b, ways, total_multiplier) ==
    base_payout * b * ((ways * total_multiplier.num) \div total_multiplier.den)

NoWin == [symbol |-> "None"]

\* _evaluate_symbol: the win record, or NoWin for None.
evaluate_symbol(grid, b, target_symbol) ==
    LET reel_matches == scan_reels(grid, target_symbol, 0)
        match_count == Len(reel_matches)
    IN  IF match_count < min_match(target_symbol) THEN NoWin
        ELSE IF target_symbol \notin DOMAIN PAYTABLE
                \/ match_count \notin DOMAIN PAYTABLE[target_symbol] THEN NoWin
        ELSE LET base_payout == PAYTABLE[target_symbol][match_count]
                 wm == calculate_ways_and_multiplier(reel_matches)
             IN  [symbol |-> target_symbol,
                  count |-> match_count,
                  ways |-> wm[1],
                  multiplier |-> wm[2],
                  base_payout |-> base_payout,
                  payout |-> final_payout(base_payout, b, wm[1], wm[2]),
                  positions |-> get_winning_positions(reel_matches, 1)]

\* evaluate: one record per payable symbol that wins.  The source iterates a
\* set of symbols, so the order of the list is unspecified; the list is
\* modelled by the set of its records.
evaluate(grid, b) ==
    {evaluate_symbol(grid, b, symbol) : symbol \in get_payable_symbols} \ {NoWin}

(***************************************************************************)
(* The evaluator on its own: construction with a board and a bet, then     *)
(* evaluate().                                                             *)
(***************************************************************************)
InitEval ==
    /\ component = "WaysEvaluator"
    /\ reels \in Boards(ReelKinds)
    /\ bet \in Bets
    /\ wins = {}
    /\ evaluated = FALSE
    /\ TransformIdle /\ EngineIdle /\ SessionIdle
    /\ ToolIdle

Evaluate ==
    /\ component = "WaysEvaluator"
    /\ ~evaluated
    /\ wins' = evaluate(reels, bet)
    /\ evaluated' = TRUE
    /\ UNCHANGED <<component, reels, bet, transformVars, engineVars, sessionVars>>
    /\ UNCHANGED toolVars

NextEval == Evaluate

SpecEval == InitEval /\ [][NextEval]_vars

(***************************************************************************)
(* game_override.py: apply_transformations                                 *)
(***************************************************************************)
\* transform_map, as the dict built from the thresholds.
transform_map_only_highest(count) ==
    IF count >= 13 THEN [s \in {"H2"} |-> "H1"]
    ELSE IF count >= 7 THEN [s \in {"H3"} |-> "H1"]
    ELSE IF count >= 4 THEN [s \in {"H4"} |-> "H1"]
    ELSE [s \in {} |-> "H1"]

transform_map(count) ==
    [s \in (IF count >= 4 THEN {"H4"} ELSE {})
           \cup (IF count >= 7 THEN {"H3"} ELSE {})
           \cup (IF count >= 13 THEN {"H2"} ELSE {}) |-> "H1"]

\* applied_transformations, in the order the thresholds are tested.
applied_list(count) ==
    (IF count >= 4 THEN <<"H4_TO_H1">> ELSE <<>>)
    \o (IF count >= 7 THEN <<"H3_TO_H1">> ELSE <<>>)
    \o (IF count >= 13 THEN <<"H2_TO_H1">> ELSE <<>>)
    \o (IF count >= 15 THEN <<"INFINITE_BREACH">> ELSE <<>>)

\* transformed_reels = deepcopy(reels): what the caller's board holds after
\* the copy has been transformed.
argument_after_apply_aliased(grid, transformed) == transformed

argument_after_apply(grid, transformed) == grid

\* apply_transformations: <<transformed_reels, applied_transformations>>.
apply_transformations(grid, count) ==
    LET map == transform_map(count)
    IN  << [reel_idx \in 1..REEL_COUNT |->
               [row_idx \in 1..ROWS_PER_REEL |->
                   IF grid[reel_idx][row_idx] \in DOMAIN map
                       THEN map[grid[reel_idx][row_idx]]
                       ELSE grid[reel_idx][row_idx]]],
           applied_list(count) >>

InitTransform ==
    /\ component = "apply_transformations"
    /\ arg_reels \in Boards(TransformReelKinds)
    /\ arg_collector_count \in 0..MaxCollectorCount
    /\ transformed_reels = <<>>
    /\ applied_transformations = <<>>
    /\ returned = FALSE
    /\ EvalIdle /\ EngineIdle /\ SessionIdle
    /\ ToolIdle

ApplyTransformations ==
    /\ component \in {"apply_transformations", "threshold functions"}
    /\ ~returned
    /\ LET out == apply_transformations(arg_reels, arg_collector_count)
       IN  /\ transformed_reels' = out[1]
           /\ applied_transformations' = out[2]
           /\ arg_reels' = argument_after_apply(arg_reels, out[1])
    /\ returned' = TRUE
    /\ UNCHANGED <<component, arg_collector_count, evalVars, engineVars, sessionVars>>
    /\ UNCHANGED toolVars

NextTransform == ApplyTransformations

SpecTransform == InitTransform /\ [][NextTransform]_vars

\* A later call of apply_transformations in the same session: the same
\* board, the collector count the caller passes this time.
ApplyTransformationsAgain(count) ==
    /\ component = "apply_transformations"
    /\ returned
    /\ calls < MaxCalls
    /\ calls' = calls + 1
    /\ arg_collector_count' = count
    /\ LET out == apply_transformations(arg_reels, count)
       IN  /\ transformed_reels' = out[1]
           /\ applied_transformations' = out[2]
           /\ arg_reels' = argument_after_apply(arg_reels, out[1])
    /\ UNCHANGED <<component, returned, collector_count, current_bet, balance, phase,
                   transformation_level, infinite_breach_active, pending_events,
                   result, evalVars, sessionVars>>
    /\ UNCHANGED toolVars

NextTransformCalls ==
    \/ ApplyTransformations
    \/ \E count \in 0..MaxCollectorCount : ApplyTransformationsAgain(count)

SpecTransformCalls == InitTransform /\ [][NextTransformCalls]_vars

(***************************************************************************)
(* gamestate.py: GameState and GameEngine.  An event is the dict that      *)
(* emit_event appends, without its wall-clock timestamp.                   *)
(***************************************************************************)
TRANSFORMATION_THRESHOLDS ==
    (4 :> "H4_TO_H1" @@ 7 :> "H3_TO_H1" @@ 13 :> "H2_TO_H1" @@ 15 :> "INFINITE_BREACH")

\* sorted(TRANSFORMATION_THRESHOLDS.items())
sorted_thresholds == <<4, 7, 13, 15>>

\* The events of update_transformation_level's first loop, from the k-th
\* threshold on; level is the transformation level before the call.
RECURSIVE transformation_events(_, _, _)
transformation_events(count, level, k) ==
    IF k > Len(sorted_thresholds) THEN <<>>
    ELSE LET threshold == sorted_thresholds[k]
             transform == TRANSFORMATION_THRESHOLDS[threshold]
             rest == transformation_events(count, level, k + 1)
         IN  IF count >= threshold /\ threshold > level
                 THEN << [type |-> "symbolTransformation",
                          data |-> [threshold |-> threshold,
                                    transformation |-> transform,
                                    collectorCount |-> count]] >>
                      \o (IF transform = "INFINITE_BREACH"
                              THEN << [type |-> "infiniteBreach",
                                       data |-> [active |-> TRUE, multiplier |-> 2]] >>
                              ELSE <<>>)
                      \o rest
                 ELSE rest

\* The level update_transformation_level leaves: the highest threshold
\* reached, or the old level when none is.
highest_threshold_not_stored(count, level) == level

highest_threshold(count, level) ==
    IF count >= 15 THEN 15
    ELSE IF count >= 13 THEN 13
    ELSE IF count >= 7 THEN 7
    ELSE IF count >= 4 THEN 4
    ELSE level

\* Whether update_transformation_level sets infinite_breach_active.
breach_unlocked_at_13(count, level) == count >= 13 /\ 13 > level

breach_unlocked(count, level) == count >= 15 /\ 15 > level

\* add_collectors emitting the collection event after the transformations
add_collectors_collection_last(state, count) ==
    LET new_count == state.collector_count + count
    IN  [collector_count |-> new_count,
         transformation_level |-> highest_threshold(new_count, state.transformation_level),
         infinite_breach_active |->
             state.infinite_breach_active
                 \/ breach_unlocked(new_count, state.transformation_level),
         pending_events |->
             state.pending_events
             \o transformation_events(new_count, state.transformation_level, 1)
             \o << [type |-> "collectorCollection",
                    data |-> [previousCount |-> state.collector_count,
                              newCount |-> new_count,
                              collected |-> count]] >>]

\* add_collectors(count) on a state; the state after it, as a record.
add_collectors(state, count) ==
    LET new_count == state.collector_count + count
    IN  [collector_count |-> new_count,
         transformation_level |-> highest_threshold(new_count, state.transformation_level),
         infinite_breach_active |->
             state.infinite_breach_active
                 \/ breach_unlocked(new_count, state.transformation_level),
         pending_events |->
             state.pending_events
             \o << [type |-> "collectorCollection",
                    data |-> [previousCount |-> state.collector_count,
                              newCount |-> new_count,
                              collected |-> count]] >>
             \o transformation_events(new_count, state.transformation_level, 1)]

CollectorState ==
    [collector_count |-> collector_count,
     transformation_level |-> transformation_level,
     infinite_breach_active |-> infinite_breach_active,
     pending_events |-> pending_events]

\* collectors_in_spin
collectors_in_spin(original_reels) ==
    Cardinality({rc \in (1..REEL_COUNT) \X (1..ROWS_PER_REEL) :
                    original_reels[rc[1]][rc[2]] = "Collector"})

\* The collector count spin passes to apply_transformations: the state's
\* count, read after the collectors of this spin were added.
count_before_this_spin(before, after) == before

count_for_transformation(before, after) == after

\* The Infinite Breach adjustment of the win records.
boost_every_win(ws, active) ==
    IF active THEN {[w EXCEPT !.payout = 2 * w.payout] : w \in ws} ELSE ws

boost_h1_wins(ws, active) ==
    IF active
        THEN {IF w.symbol = "H1" THEN [w EXCEPT !.payout = 2 * w.payout] ELSE w : w \in ws}
        ELSE ws

\* sum(win["payout"] for win in wins)
total_payout_of_one(ws) ==
    IF ws = {} THEN 0 ELSE (CHOOSE x \in ws : TRUE).payout

RECURSIVE total_payout(_)
total_payout(ws) ==
    IF ws = {} THEN 0
    ELSE LET w == CHOOSE x \in ws : TRUE
         IN  w.payout + total_payout(ws \ {w})

\* _count_h1_stacks
count_h1_stacks(grid) ==
    Cardinality({r \in 1..REEL_COUNT :
                    Cardinality({row \in 1..ROWS_PER_REEL : grid[r][row] = "H1"}) >= 3})

\* _get_winning_positions of the engine: the set of all positions of all wins
engine_winning_positions(ws) ==
    UNION {{w.positions[k] : k \in 1..Len(w.positions)} : w \in ws}

\* _serialize_win
serialize_win(w) ==
    [symbol |-> w.symbol, count |-> w.count, payout |-> w.payout,
     ways |-> w.ways, multiplier |-> w.multiplier]

InitEngine ==
    /\ component = "GameEngine"
    /\ collector_count = 0
    /\ current_bet = 1
    /\ balance \in InitialBalances
    /\ phase = "idle"
    /\ transformation_level = 0
    /\ infinite_breach_active = FALSE
    /\ pending_events = <<>>
    /\ result = NoResult
    /\ calls = 0
    /\ EvalIdle /\ TransformIdle /\ SessionIdle
    /\ ToolIdle

\* A GameState of its own, as its defaults construct it.
InitCollectors ==
    /\ component = "GameState"
    /\ collector_count = 0
    /\ current_bet = 1
    /\ balance = 10000
    /\ phase = "idle"
    /\ transformation_level = 0
    /\ infinite_breach_active = FALSE
    /\ pending_events = <<>>
    /\ result = NoResult
    /\ calls = 0
    /\ EvalIdle /\ TransformIdle /\ SessionIdle
    /\ ToolIdle

\* GameState.add_collectors(count), called directly: on the engine's state
\* within the engine's calls, on a GameState of its own as long as the
\* counter stays within MaxCollectorCount.
AddCollectors(count) ==
    /\ \/ component = "GameEngine" /\ calls < MaxCalls
       \/ component = "GameState" /\ collector_count + count <= MaxCollectorCount
    /\ LET after == add_collectors(CollectorState, count)
       IN  /\ collector_count' = after.collector_count
           /\ transformation_level' = after.transformation_level
           /\ infinite_breach_active' = after.infinite_breach_active
           /\ pending_events' = after.pending_events
    /\ calls' = calls + 1
    /\ UNCHANGED <<component, current_bet, balance, phase, result, evalVars, transformVars, sessionVars>>
    /\ UNCHANGED toolVars

\* The balance when spin raises: the check comes before the deduction.
balance_when_rejected_deducted(bal, b) == bal - 10 * b

balance_when_rejected(bal, b) == bal

\* GameEngine.spin(bet) with bet > balance: ValueError, nothing changed
SpinRejected(b) ==
    /\ component = "GameEngine"
    /\ calls < MaxCalls
    /\ 10 * b > balance
    /\ result' = [returned |-> "ValueError"]
    /\ calls' = calls + 1
    /\ balance' = balance_when_rejected(balance, b)
    /\ UNCHANGED <<component, collector_count, current_bet, phase,
                   transformation_level, infinite_breach_active, pending_events,
                   evalVars, transformVars, sessionVars>>
    /\ UNCHANGED toolVars

\* The reveal and win events of a spin.
spin_events(transformed, ws, total_win) ==
    (IF count_h1_stacks(transformed) >= 3
         THEN << [type |-> "reveal",
                  data |-> [h1StackCount |-> count_h1_stacks(transformed),
                            triggerScreenShake |-> TRUE]] >>
         ELSE <<>>)
    \o (IF ws # {}
            THEN << [type |-> "win",
                     data |-> [totalWin |-> total_win,
                               wins |-> {serialize_win(w) : w \in ws},
                               winningPositions |-> engine_winning_positions(ws),
                               nonWinningDimmed |-> TRUE]] >>
            ELSE <<>>)

\* GameEngine.spin(bet) drawing the board original_reels.  Each value is
\* bound once, in the order the source computes it.  spin_reels is the
\* board self.reel_generator.generate_spin() returned last.
Spin(b, original_reels) ==
    /\ component = "GameEngine"
    /\ calls < MaxCalls
    /\ ~(10 * b > balance)
    /\ current_bet' = b
    /\ calls' = calls + 1
    /\ pending_events' = <<>>
    /\ phase' = "idle"
    /\ \E after \in {IF collectors_in_spin(original_reels) > 0
                        THEN add_collectors(CollectorState, collectors_in_spin(original_reels))
                        ELSE CollectorState} :
           /\ collector_count' = after.collector_count
           /\ transformation_level' = after.transformation_level
           /\ infinite_breach_active' = after.infinite_breach_active
           /\ \E transformed \in {apply_transformations(
                                    original_reels,
                                    count_for_transformation(collector_count,
                                                             after.collector_count))} :
              \E ws \in {boost_h1_wins(evaluate(transformed[1], b),
                                       after.infinite_breach_active)} :
              \E total_win \in {total_payout(ws)} :
                  /\ balance' = balance - 10 * b + total_win
                  /\ result' =
                         [returned |-> "SpinResult",
                          reels |-> transformed[1],
                          original_reels |->
                              argument_after_apply(original_reels, transformed[1]),
                          wins |-> ws,
                          total_win |-> total_win,
                          multiplier |-> IF after.infinite_breach_active THEN 2 ELSE 1,
                          collector_count |-> after.collector_count,
                          transformations_applied |-> transformed[2],
                          events |-> after.pending_events
                                     \o spin_events(transformed[1], ws, total_win)]
    /\ spin_reels' = original_reels
    /\ UNCHANGED <<component, evalVars, transformVars, sessionVars>>
    /\ UNCHANGED <<arg_reel_weights, reel_weights, weighted_symbols, gen_pc,
                   exceptGenerator>>

NextEngine ==
    \/ \E count \in AddCounts : AddCollectors(count)
    \/ \E b \in EngineBets : SpinRejected(b)
    \/ \E b \in EngineBets, original_reels \in EngineBoards : Spin(b, original_reels)

SpecEngine == InitEngine /\ [][NextEngine]_vars

NextCollectors == \E count \in AddCounts : AddCollectors(count)

SpecCollectors == InitCollectors /\ [][NextCollectors]_vars

(***************************************************************************)
(* games/meta_vault: the free-spin session.  game_config.py gives the      *)
(* tables; game_override.py, game_executables.py and gamestate.py the      *)
(* steps.  A board cell is [name, multiplier], multiplier 0 standing for a *)
(* symbol without the attribute.                                           *)
(***************************************************************************)
transform_thresholds == ("H4" :> 4 @@ "H3" :> 7 @@ "H2" :> 13)

\* transform_thresholds.items(), in the order of the dict
transform_order == <<"H4", "H3", "H2">>

freespin_triggers ==
    [basegame |-> (3 :> 8 @@ 4 :> 15 @@ 5 :> 20),
     freegame |-> (2 :> 5 @@ 3 :> 8 @@ 4 :> 12 @@ 5 :> 15)]

max_freespins == 125

wild_multiplier_values == ("W" :> 1 @@ "W2X" :> 2 @@ "W3X" :> 3)

\* assign_wild_multiplier, bound to W, W2X and W3X by assign_special_sym_function
assign_wild_multiplier(name) ==
    IF name \in {"W", "W2X", "W3X"}
        THEN IF name \in DOMAIN wild_multiplier_values THEN wild_multiplier_values[name] ELSE 1
        ELSE 0

\* draw_board: the drawn names as symbols with their special attributes
draw_board(names) ==
    [r \in 1..Len(names) |->
        [row \in 1..Len(names[r]) |->
            [name |-> names[r][row], multiplier |-> assign_wild_multiplier(names[r][row])]]]

\* count_special_symbols, for one symbol name
count_special_symbols(b, name) ==
    Cardinality({rc \in (1..Len(b)) \X (1..ROWS_PER_REEL) :
                    rc[2] <= Len(b[rc[1]]) /\ b[rc[1]][rc[2]].name = name})

\* check_transformations latching at most one symbol in a call
newly_transformed_one_per_call(gold, transformed, k) ==
    LET due == {i \in k..Len(transform_order) :
                   /\ gold >= transform_thresholds[transform_order[i]]
                   /\ transform_order[i] \notin transformed}
    IN  IF due = {} THEN <<>>
        ELSE <<transform_order[CHOOSE i \in due : \A j \in due : i <= j]>>

\* check_transformations: the symbols it adds to transformed_symbols, in
\* dict order from the k-th entry on
RECURSIVE newly_transformed(_, _, _)
newly_transformed(gold, transformed, k) ==
    IF k > Len(transform_order) THEN <<>>
    ELSE LET symbol_name == transform_order[k]
             rest == newly_transformed(gold, transformed, k + 1)
         IN  IF gold >= transform_thresholds[symbol_name] /\ symbol_name \notin transformed
                 THEN <<symbol_name>> \o rest
                 ELSE rest

\* the records check_transformations makes for them
transformation_records(names, gold, gtype) ==
    [k \in 1..Len(names) |->
        [event |-> "transformation", symbol |-> names[k],
         gold_count |-> gold, gametype |-> gtype]]

\* emit_collector_event
collector_event(collectors, gold, transformed) ==
    [type |-> "collectorCollection", collectorsCollected |-> collectors,
     totalCollectors |-> gold, transformedSymbols |-> transformed]

\* process_collector_collection: gold_collected after the collectors of the
\* board are added to it
gold_after_collection_overwritten(gold, collectors) == collectors

gold_after_collection(gold, collectors) == gold + collectors

\* The loop condition of run_freespin
loop_continues_always(played, total) == TRUE

loop_continues(played, total) == played < total

\* update_fs_retrigger_amt without the cap
update_fs_retrigger_amt_uncapped(b, gtype, total) ==
    LET scatter_count == count_special_symbols(b, "S")
    IN  IF scatter_count \in DOMAIN freespin_triggers[gtype]
            THEN total + freespin_triggers[gtype][scatter_count]
            ELSE total

\* The test of get_wincap_triggered at the end of the loop body of
\* run_freespin: where the session goes on from
after_spin_pc_unchecked(wincap) == "freespin"

after_spin_pc(wincap) == IF wincap THEN "wincap" ELSE "freespin"

\* GameStateOverride.apply_transformations: the board after it.  A cell whose
\* name is in transformed_symbols is replaced by a new H4 symbol that keeps
\* the cell's multiplier attribute.
replacement_symbol_h1(symbol) == [name |-> "H1", multiplier |-> symbol.multiplier]

replacement_symbol(symbol) == [name |-> "H4", multiplier |-> symbol.multiplier]

session_apply_transformations(b, transformed) ==
    [r \in 1..Len(b) |->
        [row \in 1..Len(b[r]) |->
            IF b[r][row].name \in transformed
                THEN replacement_symbol(b[r][row])
                ELSE b[r][row]]]

\* check_fs_condition of the host framework: enough scatters for the current
\* game type's trigger table
check_fs_condition(b, gtype) ==
    \E n \in DOMAIN freespin_triggers[gtype] : count_special_symbols(b, "S") >= n

\* update_fs_retrigger_amt looking the scatter count up in the table of the
\* base game
update_fs_retrigger_amt_entry_table(b, gtype, total) ==
    LET scatter_count == count_special_symbols(b, "S")
        spins_to_add == IF scatter_count \in DOMAIN freespin_triggers["basegame"]
                            THEN freespin_triggers["basegame"][scatter_count] ELSE 0
    IN  IF spins_to_add > 0
            THEN IF total + spins_to_add > max_freespins
                     THEN max_freespins ELSE total + spins_to_add
            ELSE total

\* check_freespin_entry asking for more scatters than the smallest key
check_freespin_entry_above(b, gtype) ==
    \A least \in {n \in DOMAIN freespin_triggers[gtype] :
                     \A other \in DOMAIN freespin_triggers[gtype] : n <= other} :
        count_special_symbols(b, "S") > least

\* self.repeat after check_freespin_entry: set when the criteria force a
\* free game and the scatters do not give one
repeat_after_entry(rep, force, enough) ==
    IF force /\ ~enough THEN TRUE ELSE rep

\* check_freespin_entry: at least as many scatters on the board as the
\* smallest key of the game type's trigger table (both branches of
\* force_freegame return the same answer)
check_freespin_entry(b, gtype) ==
    \A least \in {n \in DOMAIN freespin_triggers[gtype] :
                     \A other \in DOMAIN freespin_triggers[gtype] : n <= other} :
        count_special_symbols(b, "S") >= least

\* update_fs_retrigger_amt with a count above the table taking the entry of
\* the largest key
update_fs_retrigger_amt_nearest_entry(b, gtype, total) ==
    LET scatter_count == count_special_symbols(b, "S")
        spins_to_add == IF scatter_count \in DOMAIN freespin_triggers[gtype]
                            THEN freespin_triggers[gtype][scatter_count]
                        ELSE IF scatter_count > 5 THEN freespin_triggers[gtype][5]
                        ELSE 0
    IN  IF spins_to_add > 0
            THEN IF total + spins_to_add > max_freespins
                     THEN max_freespins ELSE total + spins_to_add
            ELSE total

\* spins_to_add = self.config.freespin_triggers[self.gametype].get(scatter_count, 0)
spins_to_add_for(b, gtype) ==
    IF count_special_symbols(b, "S") \in DOMAIN freespin_triggers[gtype]
        THEN freespin_triggers[gtype][count_special_symbols(b, "S")]
        ELSE 0

\* update_fs_retrigger_amt: tot_fs after it
update_fs_retrigger_amt(b, gtype, total) ==
    LET scatter_count == count_special_symbols(b, "S")
        spins_to_add == IF scatter_count \in DOMAIN freespin_triggers[gtype]
                            THEN freespin_triggers[gtype][scatter_count] ELSE 0
    IN  IF spins_to_add > 0
            THEN IF total + spins_to_add > max_freespins
                     THEN max_freespins ELSE total + spins_to_add
            ELSE total

InitSession ==
    /\ component = "meta_vault"
    /\ gametype = "basegame"
    /\ fs_pc = "base"
    /\ board \in {draw_board(names) : names \in SessionBoards}
    /\ raw_board = <<>>
    /\ gold_collected = 0
    /\ transformed_symbols = {}
    /\ fs = 0
    /\ tot_fs = 0
    /\ records = <<>>
    /\ book_events = <<>>
    /\ EvalIdle /\ TransformIdle /\ EngineIdle
    /\ ToolIdle

\* run_freespin_from_base up to the first test of the loop condition of
\* run_freespin: the trigger is recorded, the budget set from the base-game
\* table, and reset_fs_spin and reset_fs_session start the session.
StartFreespin ==
    /\ component = "meta_vault"
    /\ fs_pc = "base"
    /\ check_fs_condition(board, gametype)
    /\ check_freespin_entry(board, gametype)
    /\ count_special_symbols(board, "S") \in DOMAIN freespin_triggers["basegame"]
    /\ records' = Append(records, [kind |-> count_special_symbols(board, "S"),
                                   symbol |-> "scatter", gametype |-> gametype])
    /\ tot_fs' = freespin_triggers["basegame"][count_special_symbols(board, "S")]
    /\ gametype' = "freegame"
    /\ fs' = 0
    /\ gold_collected' = 0
    /\ transformed_symbols' = {}
    /\ fs_pc' = "freespin"
    /\ UNCHANGED <<component, board, raw_board, book_events, evalVars, transformVars, engineVars>>
    /\ UNCHANGED toolVars

\* One iteration of the loop of run_freespin, drawing the board `names`;
\* wincap is what get_wincap_triggered answers after it.
FreeSpin(names, wincap) ==
    /\ component = "meta_vault"
    /\ fs_pc = "freespin"
    /\ loop_continues(fs, tot_fs)
    /\ fs < MaxFreeSpins
    /\ fs' = fs + 1
    /\ \E drawn \in {draw_board(names)} :
       \E collectors_this_spin \in {count_special_symbols(drawn, "G")} :
       \E gold \in {gold_after_collection(gold_collected, collectors_this_spin)} :
       \E new_names \in {newly_transformed(gold, transformed_symbols, 1)} :
       \E transformed \in {transformed_symbols \cup {new_names[k] : k \in 1..Len(new_names)}} :
           /\ gold_collected' = gold
           /\ transformed_symbols' = transformed
           /\ records' = records \o transformation_records(new_names, gold, gametype)
           /\ raw_board' = drawn
           /\ board' = session_apply_transformations(drawn, transformed)
           /\ tot_fs' = IF check_fs_condition(drawn, gametype)
                            THEN update_fs_retrigger_amt(drawn, gametype, tot_fs)
                            ELSE tot_fs
           /\ book_events' =
                  book_events
                  \o << collector_event(collectors_this_spin, gold, transformed) >>
                  \o (IF check_fs_condition(drawn, gametype)
                         /\ spins_to_add_for(drawn, gametype) > 0
                          THEN << [type |-> "freeSpinRetrigger",
                                   totalFs |-> update_fs_retrigger_amt(drawn, gametype, tot_fs)] >>
                          ELSE <<>>)
    /\ fs_pc' = after_spin_pc(wincap)
    /\ UNCHANGED <<component, gametype, evalVars, transformVars, engineVars>>
    /\ UNCHANGED toolVars

\* The loop of run_freespin is left, by its condition or by the win cap,
\* and end_freespin is called.
EndFreespin ==
    /\ component \in {"meta_vault", "run_freespin"}
    /\ \/ fs_pc = "wincap"
       \/ fs_pc = "freespin" /\ ~loop_continues(fs, tot_fs)
    /\ fs_pc' = "done"
    /\ UNCHANGED <<component, gametype, board, raw_board, gold_collected,
                   transformed_symbols, fs, tot_fs, records, book_events,
                   evalVars, transformVars, engineVars>>
    /\ UNCHANGED toolVars

\* One more pass of the loop of run_spin, after a pass that triggered no
\* free spins or whose free spins are over: reset_book, then the base-game
\* board `names` is drawn and evaluated as it is.
RunSpin(names) ==
    /\ component = "meta_vault"
    /\ \/ fs_pc = "done"
       \/ /\ fs_pc = "base"
          /\ ~(check_fs_condition(board, gametype) /\ check_freespin_entry(board, gametype))
    /\ gametype' = "basegame"
    /\ fs_pc' = "base"
    /\ board' = draw_board(names)
    /\ raw_board' = <<>>
    /\ gold_collected' = 0
    /\ transformed_symbols' = {}
    /\ fs' = 0
    /\ tot_fs' = 0
    /\ records' = <<>>
    /\ book_events' = <<>>
    /\ UNCHANGED <<component, evalVars, transformVars, engineVars>>
    /\ UNCHANGED toolVars

NextSession ==
    \/ \E names \in SessionBoards : RunSpin(names)
    \/ StartFreespin
    \/ \E names \in SessionBoards, wincap \in BOOLEAN : FreeSpin(names, wincap)
    \/ EndFreespin

SpecSession == InitSession /\ [][NextSession]_vars

(***************************************************************************)
(* run_freespin as far as the free-spin budget goes: the played-spin       *)
(* counter fs, the budget tot_fs and the position in the loop, from the    *)
(* trigger to end_freespin, for any scatter outcome of every spin.  What a *)
(* free spin collects, transforms and writes to the book is in FreeSpin    *)
(* and stays out of these steps, so the loop can run its full length.      *)
(***************************************************************************)
InitBudget ==
    /\ component = "run_freespin"
    /\ gametype = "freegame"
    /\ fs_pc = "freespin"
    /\ fs = 0
    /\ tot_fs \in {freespin_triggers["basegame"][n] : n \in DOMAIN freespin_triggers["basegame"]}
    /\ board = <<>> /\ raw_board = <<>>
    /\ gold_collected = 0 /\ transformed_symbols = {}
    /\ records = <<>> /\ book_events = <<>>
    /\ EvalIdle /\ TransformIdle /\ EngineIdle
    /\ ToolIdle

\* One iteration of the loop: update_freespin, the retrigger test on the
\* drawn board `names`, and the win-cap test.
FreeSpinBudget(names, wincap) ==
    /\ component = "run_freespin"
    /\ fs_pc = "freespin"
    /\ loop_continues(fs, tot_fs)
    /\ fs' = fs + 1
    /\ fs_pc' = after_spin_pc(wincap)
    /\ \E drawn \in {draw_board(names)} :
           tot_fs' = IF check_fs_condition(drawn, gametype)
                         THEN update_fs_retrigger_amt(drawn, gametype, tot_fs)
                         ELSE tot_fs
    /\ UNCHANGED <<component, gametype, board, raw_board, gold_collected,
                   transformed_symbols, records, book_events,
                   evalVars, transformVars, engineVars>>
    /\ UNCHANGED toolVars

NextBudget ==
    \/ \E names \in SessionBoards, wincap \in BOOLEAN : FreeSpinBudget(names, wincap)
    \/ EndFreespin

SpecBudget == InitBudget /\ [][NextBudget]_vars

\* run_freespin is sequential code: a step that can be taken is taken.
SpecBudgetFair == SpecBudget /\ WF_vars(NextBudget)

(***************************************************************************)
(* The three places a board is transformed, side by side: the function     *)
(* apply_transformations, the engine's spin, and the free-spin session.    *)
(***************************************************************************)
InitTransformations == InitTransform \/ InitEngine \/ InitSession

NextTransformations == NextTransform \/ NextEngine \/ NextSession

SpecTransformations == InitTransformations /\ [][NextTransformations]_vars

(***************************************************************************)
(* The ways mechanic restated from the board alone, for the properties     *)
(* below: which cells match a symbol, how long the unbroken chain from     *)
(* reel 1 is, and the left-to-right paths through it.  Reels and rows are  *)
(* 1-based here.                                                           *)
(***************************************************************************)
CellMatches(grid, r, row, sym) ==
    grid[r][row] = sym \/ grid[r][row] \in {"W", "2X", "3X"}

MatchedRows(grid, r, sym) ==
    {row \in 1..ROWS_PER_REEL : CellMatches(grid, r, row, sym)}

ChainLength(grid, sym) ==
    Cardinality({n \in 1..REEL_COUNT :
                    \A r \in 1..n : MatchedRows(grid, r, sym) # {}})

RECURSIVE RowCountProduct(_, _, _)
RowCountProduct(grid, sym, n) ==
    IF n = 0 THEN 1
    ELSE Cardinality(MatchedRows(grid, n, sym)) * RowCountProduct(grid, sym, n - 1)

CellContribution(cell) ==
    CASE cell = "2X" -> 2 [] cell = "3X" -> 3 [] OTHER -> 1

\* The left-to-right paths through reels 1..n: one matching row per reel.
RECURSIVE Paths(_, _, _)
Paths(grid, sym, n) ==
    IF n = 0 THEN {<<>>}
    ELSE {Append(p, row) : p \in Paths(grid, sym, n - 1),
                           row \in MatchedRows(grid, n, sym)}

RECURSIVE PathProduct(_, _, _)
PathProduct(grid, p, n) ==
    IF n = 0 THEN 1
    ELSE CellContribution(grid[n][p[n]]) * PathProduct(grid, p, n - 1)

\* The sum over a set of paths of each path's product, taken value by value:
\* each product value times the number of paths that have it.
RECURSIVE SumByValue(_, _, _, _)
SumByValue(grid, values, ps, n) ==
    IF values = {} THEN 0
    ELSE LET v == CHOOSE x \in values : TRUE
         IN  v * Cardinality({p \in ps : PathProduct(grid, p, n) = v})
             + SumByValue(grid, values \ {v}, ps, n)

PathSum(grid, sym, n) ==
    LET ps == Paths(grid, sym, n)
    IN  SumByValue(grid, {PathProduct(grid, p, n) : p \in ps}, ps, n)

FullScreen(grid, sym) ==
    \A r \in 1..REEL_COUNT : \A row \in 1..ROWS_PER_REEL : CellMatches(grid, r, row, sym)

\* C1: every emitted record's ways count is the product over the matched
\* reels 1..count of the number of rows holding the symbol or a wild, and a
\* board matching on all 4 rows of all 5 reels gives ways = 1024, count = 5.
C1_WaysIsProductOfRowCounts ==
    evaluated =>
        /\ \A w \in wins : w.ways = RowCountProduct(reels, w.symbol, w.count)
        /\ \A sym \in DOMAIN PAYTABLE :
              FullScreen(reels, sym) =>
                  \E w \in wins : w.symbol = sym /\ w.ways = 1024 /\ w.count = 5

C1_Witness ==
    /\ evaluated
    /\ \E w \in wins : w.count = 5 /\ w.ways = 1024
    /\ FullScreen(reels, "H1")

\* C2: the reported multiplier is the sum over all paths of the product of
\* the path's cell contributions, divided by the ways count; the single path
\* H1, 2X, 3X reports 6.
C2_MultiplierIsPathAverage ==
    evaluated =>
        /\ \A w \in wins :
              w.multiplier.num * w.ways = PathSum(reels, w.symbol, w.count) * w.multiplier.den
        /\ \A w \in wins :
              (/\ w.symbol = "H1" /\ w.count = 3 /\ w.ways = 1
               /\ \E p \in Paths(reels, "H1", 3) :
                     <<reels[1][p[1]], reels[2][p[2]], reels[3][p[3]]>> = <<"H1", "2X", "3X">>)
              => w.multiplier.num = 6 * w.multiplier.den

C2_Witness ==
    /\ evaluated
    /\ \E w \in wins :
          /\ w.symbol = "H1" /\ w.count = 3 /\ w.ways = 1
          /\ <<reels[1][1], reels[2][1], reels[3][1]>> = <<"H1", "2X", "3X">>
          /\ w.multiplier = [num |-> 6, den |-> 1]

\* C3: payout = PAYTABLE[symbol][count] * bet * ways * multiplier, which is
\* PAYTABLE[symbol][count] * bet * (sum of the per-path multiplier products).
C3_PayoutFormula ==
    evaluated =>
        \A w \in wins :
            LET unit == PAYTABLE[w.symbol][w.count] * bet
                q == w.payout \div unit
            IN  /\ w.payout = unit * q
                /\ q * w.multiplier.den = w.ways * w.multiplier.num
                /\ q = PathSum(reels, w.symbol, w.count)

C3_Witness ==
    /\ evaluated
    /\ bet = 2
    /\ \E w \in wins : w.ways > 1 /\ w.multiplier.num > w.multiplier.den

\* C4: the match length is the number of consecutive reels from reel 1 with a
\* match; a board where reel 2 has no match for a symbol and reels 1, 3, 4, 5
\* have one gives match length 1 and no record for that symbol.
C4_ChainBreak ==
    evaluated =>
        /\ \A sym \in DOMAIN PAYTABLE :
              Len(scan_reels(reels, sym, 0)) = ChainLength(reels, sym)
        /\ \A w \in wins : w.count = ChainLength(reels, w.symbol)
        /\ \A sym \in DOMAIN PAYTABLE :
              (/\ MatchedRows(reels, 2, sym) = {}
               /\ \A r \in {1, 3, 4, 5} : MatchedRows(reels, r, sym) # {})
              => /\ Len(scan_reels(reels, sym, 0)) = 1
                 /\ \A w \in wins : w.symbol # sym

C4_Witness ==
    /\ evaluated
    /\ MatchedRows(reels, 2, "H1") = {}
    /\ \A r \in {1, 3, 4, 5} : MatchedRows(reels, r, "H1") # {}
    /\ \A w \in wins : w.symbol # "H1"

\* C5: H1 wins at match length exactly 2, every other payable symbol has no
\* record below match length 3, and the board with H1 on row 1 of reels 1-2
\* and no H1 or wild elsewhere yields exactly one H1 record: count 2, ways 1,
\* multiplier 1, payout PAYTABLE[H1][2] * bet.
C5_MinimumMatch ==
    evaluated =>
        /\ ChainLength(reels, "H1") = 2 => \E w \in wins : w.symbol = "H1" /\ w.count = 2
        /\ \A sym \in DOMAIN PAYTABLE \ {"H1"} :
              ChainLength(reels, sym) < 3 => \A w \in wins : w.symbol # sym
        /\ \A w \in wins : w.symbol # "H1" => w.count >= 3
        /\ (/\ MatchedRows(reels, 1, "H1") = {1} /\ reels[1][1] = "H1"
            /\ MatchedRows(reels, 2, "H1") = {1} /\ reels[2][1] = "H1"
            /\ \A r \in 3..REEL_COUNT : MatchedRows(reels, r, "H1") = {})
           => /\ Cardinality({w \in wins : w.symbol = "H1"}) = 1
              /\ \A w \in wins :
                    w.symbol = "H1" =>
                        /\ w.count = 2 /\ w.ways = 1
                        /\ w.multiplier.num = w.multiplier.den
                        /\ w.payout = PAYTABLE["H1"][2] * bet

C5_Witness ==
    /\ evaluated
    /\ MatchedRows(reels, 1, "H1") = {1} /\ reels[1][1] = "H1"
    /\ MatchedRows(reels, 2, "H1") = {1} /\ reels[2][1] = "H1"
    /\ \A r \in 3..REEL_COUNT : MatchedRows(reels, r, "H1") = {}
    /\ \E w \in wins : w.symbol = "H1" /\ w.count = 2 /\ w.payout = 10 * bet

\* C6: no record has ways = 0 or a zero payout: every record has ways >= 1,
\* count >= the symbol's minimum match length and payout > 0 (bet > 0), and a
\* symbol without a match on reel 1 has no record.
C6_NoEmptyRecord ==
    evaluated =>
        /\ \A w \in wins :
              /\ w.ways >= 1
              /\ w.count >= (IF w.symbol = "H1" THEN 2 ELSE 3)
              /\ w.payout > 0
        /\ \A sym \in DOMAIN PAYTABLE :
              MatchedRows(reels, 1, sym) = {} => \A w \in wins : w.symbol # sym

C6_Witness ==
    /\ evaluated
    /\ wins # {}
    /\ \E sym \in DOMAIN PAYTABLE :
          /\ MatchedRows(reels, 1, sym) = {}
          /\ \E r \in 2..REEL_COUNT : MatchedRows(reels, r, sym) # {}

\* C7: a wild cell counts as a match for every payable symbol; no record is
\* for Scatter, Collector or a wild; a wild never extends a chain for Scatter
\* or Collector.
C7_WildSubstitution ==
    evaluated =>
        /\ \A sym \in DOMAIN PAYTABLE : \A r \in 1..REEL_COUNT : \A row \in 1..ROWS_PER_REEL :
              reels[r][row] \in WILD_SYMBOLS =>
                  \E k \in 1..Len(reel_row_matches(reels, r - 1, sym, 0)) :
                      reel_row_matches(reels, r - 1, sym, 0)[k]
                          = <<row - 1, CellContribution(reels[r][row])>>
        /\ \A w \in wins : w.symbol \notin {"Scatter", "Collector", "W", "2X", "3X"}
        /\ \A sym \in {"Scatter", "Collector"} : \A r \in 1..REEL_COUNT :
              LET matches == reel_row_matches(reels, r - 1, sym, 0)
              IN  \A k \in 1..Len(matches) : reels[r][matches[k][1] + 1] = sym
        /\ \A sym \in {"Scatter", "Collector"} :
              evaluate_symbol(reels, bet, sym) = NoWin

C7_Witness ==
    /\ evaluated
    /\ \E w \in wins :
          /\ w.symbol = "H2" /\ w.count >= 3
          /\ \E k \in 1..Len(w.positions) :
                reels[w.positions[k][1] + 1][w.positions[k][2] + 1] = "W"
    /\ \E r \in 1..REEL_COUNT : \E row \in 1..ROWS_PER_REEL : reels[r][row] = "Collector"

\* C8: apply_transformations(reels, c) replaces every H4 cell by H1 iff
\* c >= 4, every H3 cell iff c >= 7, every H2 cell iff c >= 13, and lists
\* INFINITE_BREACH iff c >= 15; the rules are cumulative, and for c < 4 the
\* board is returned unchanged with an empty applied list.
Listed(name, list) == \E k \in 1..Len(list) : list[k] = name

CellsOf(sym) ==
    {rc \in (1..REEL_COUNT) \X (1..ROWS_PER_REEL) : arg_reels[rc[1]][rc[2]] = sym}

ReplacedByH1(sym) ==
    \A rc \in CellsOf(sym) : transformed_reels[rc[1]][rc[2]] = "H1"

KeptAsIs(sym) ==
    \A rc \in CellsOf(sym) : transformed_reels[rc[1]][rc[2]] = sym

C8_ThresholdRules ==
    returned =>
        LET c == arg_collector_count
        IN  /\ IF c >= 4 THEN ReplacedByH1("H4") ELSE KeptAsIs("H4")
            /\ IF c >= 7 THEN ReplacedByH1("H3") ELSE KeptAsIs("H3")
            /\ IF c >= 13 THEN ReplacedByH1("H2") ELSE KeptAsIs("H2")
            /\ Listed("H4_TO_H1", applied_transformations) <=> c >= 4
            /\ Listed("H3_TO_H1", applied_transformations) <=> c >= 7
            /\ Listed("H2_TO_H1", applied_transformations) <=> c >= 13
            /\ Listed("INFINITE_BREACH", applied_transformations) <=> c >= 15
            /\ c < 4 => transformed_reels = arg_reels /\ applied_transformations = <<>>

C8_Witness ==
    /\ returned
    /\ arg_collector_count = 13
    /\ CellsOf("H4") # {} /\ CellsOf("H3") # {} /\ CellsOf("H2") # {}
    /\ ReplacedByH1("H4") /\ ReplacedByH1("H3") /\ ReplacedByH1("H2")
    /\ applied_transformations = <<"H4_TO_H1", "H3_TO_H1", "H2_TO_H1">>

\* The rules that are active at a collector count, by their source symbol.
ActiveSources(c) ==
    (IF c >= 4 THEN {"H4"} ELSE {}) \cup (IF c >= 7 THEN {"H3"} ELSE {})
    \cup (IF c >= 13 THEN {"H2"} ELSE {})

Cells == (1..REEL_COUNT) \X (1..ROWS_PER_REEL)

\* C9: in the free-spin session every board cell whose symbol is the source
\* of an active rule (H4 at >= 4, H3 at >= 7, H2 at >= 13 collectors) is
\* replaced by the top-tier symbol H1 before evaluation.
C9_SessionSourcesBecomeH1 ==
    (component = "meta_vault" /\ fs > 0) =>
        \A rc \in Cells :
            raw_board[rc[1]][rc[2]].name \in ActiveSources(gold_collected)
                => board[rc[1]][rc[2]].name = "H1"

\* C10: the transformation never modifies the pre-transformation board and
\* leaves every cell that is not the source of an active rule unchanged;
\* after a spin the original and the transformed board are both there and
\* differ only at cells holding a source symbol of an active rule.
C10_OthersUnchanged ==
    /\ returned =>
          \A rc \in Cells :
              arg_reels[rc[1]][rc[2]] \notin ActiveSources(arg_collector_count)
                  => transformed_reels[rc[1]][rc[2]] = arg_reels[rc[1]][rc[2]]
    /\ result.returned = "SpinResult" =>
          \A rc \in Cells :
              result.original_reels[rc[1]][rc[2]] \notin ActiveSources(result.collector_count)
                  => result.reels[rc[1]][rc[2]] = result.original_reels[rc[1]][rc[2]]
    /\ (component = "meta_vault" /\ fs > 0) =>
          \A rc \in Cells :
              raw_board[rc[1]][rc[2]].name \notin ActiveSources(gold_collected)
                  => board[rc[1]][rc[2]] = raw_board[rc[1]][rc[2]]

C10_OriginalKept ==
    /\ (~returned /\ returned') => arg_reels' = arg_reels
    /\ \A b \in EngineBets, o \in EngineBoards :
          Spin(b, o) => result'.original_reels = o
    /\ \A names \in SessionBoards, wincap \in BOOLEAN :
          FreeSpin(names, wincap) => raw_board' = draw_board(names)

CollectorsOn(b) ==
    Cardinality({rc \in Cells : b[rc[1]][rc[2]].name = "G"})

\* C11: within one bonus session the collector counter never decreases from
\* one spin to the next, and it is set to zero only at session start, never
\* between two free spins of the same session.
C11_CounterStep ==
    component = "meta_vault" =>
        /\ (fs_pc \in {"freespin", "wincap"} /\ fs_pc' # "base")
               => gold_collected' >= gold_collected
        /\ gold_collected' < gold_collected
               => (gold_collected' = 0 /\ fs_pc' = "base" /\ fs' = 0)

C11_CounterNeverDecreases == [][C11_CounterStep]_vars

C11_Witness ==
    /\ component = "meta_vault"
    /\ fs = 2
    /\ raw_board # <<>>
    /\ CollectorsOn(raw_board) = 0
    /\ gold_collected = 4

\* C12: within one session the set of active transformation rules never
\* shrinks: a rule that is active at one spin is active at every later spin
\* of that session, also when the transformation is evaluated against a
\* collector count lower than the rule's threshold.
C12_RuleStaysActive ==
    (component = "apply_transformations" /\ returned /\ returned') =>
        \A k \in 1..Len(applied_transformations) :
            Listed(applied_transformations[k], applied_transformations')

C12_RulesNeverDeactivate == [][C12_RuleStaysActive]_vars

\* The symbolTransformation events for a threshold among the pending events,
\* and the collectorCollection event of the call an event belongs to.
TransformationEventsFor(threshold) ==
    {i \in 1..Len(pending_events) :
        /\ pending_events[i].type = "symbolTransformation"
        /\ pending_events[i].data.threshold = threshold}

IsCollection(e) == e.type = "collectorCollection"

CallOf(i) ==
    CHOOSE j \in 1..i :
        /\ IsCollection(pending_events[j])
        /\ \A m \in (j + 1)..i : ~IsCollection(pending_events[m])

\* C13: from a fresh GameState and through add_collectors calls with
\* positive counts, the symbolTransformation event of each threshold in
\* {4, 7, 13, 15} is emitted at most once, and exactly in the call in which
\* the counter first reaches the threshold; 0 -> 4 -> 7 -> 13 -> 15 emits
\* exactly four such events, one per threshold.
C13_OneEventPerThreshold ==
    component = "GameState" =>
        \A threshold \in {4, 7, 13, 15} :
            /\ Cardinality(TransformationEventsFor(threshold))
                   = (IF collector_count >= threshold THEN 1 ELSE 0)
            /\ \A i \in TransformationEventsFor(threshold) :
                   /\ pending_events[CallOf(i)].data.previousCount < threshold
                   /\ pending_events[CallOf(i)].data.newCount >= threshold
                   /\ pending_events[i].data.collectorCount
                          = pending_events[CallOf(i)].data.newCount

C13_Witness ==
    /\ component = "GameState"
    /\ calls = 4
    /\ collector_count = 15
    /\ LET collections == SelectSeq(pending_events, IsCollection)
       IN  /\ Len(collections) = 4
           /\ collections[1].data.newCount = 4
           /\ collections[2].data.newCount = 7
           /\ collections[3].data.newCount = 13
           /\ collections[4].data.newCount = 15
    /\ \A threshold \in {4, 7, 13, 15} :
           Cardinality(TransformationEventsFor(threshold)) = 1

\* The transformation notifications recorded so far in the session.
TransformationRecords ==
    {k \in 1..Len(records) :
        "event" \in DOMAIN records[k] /\ records[k].event = "transformation"}

\* C14: in the free-spin session a collector progression that passes the
\* thresholds 4, 7, 13 and 15 records exactly four transformation
\* notifications, one for each threshold, each exactly once.
C14_FourNotifications ==
    (component = "meta_vault" /\ gold_collected >= 15)
        => Cardinality(TransformationRecords) = 4

\* The name of the rule that has a given source symbol.
RuleOf(source) ==
    CASE source = "H4" -> "H4_TO_H1"
      [] source = "H3" -> "H3_TO_H1"
      [] source = "H2" -> "H2_TO_H1"

\* C15: the collector scan precedes the transformation: when the total
\* before a spin is c and the drawn board holds k collector symbols, the
\* rules applied to that spin's board for evaluation are exactly those
\* active at c + k, not at c.
C15_EngineScanFirst ==
    \A b \in EngineBets, o \in EngineBoards :
        Spin(b, o) =>
            LET active == ActiveSources(collector_count + collectors_in_spin(o))
            IN  /\ \A rc \in Cells :
                       result'.reels[rc[1]][rc[2]]
                           = (IF o[rc[1]][rc[2]] \in active THEN "H1" ELSE o[rc[1]][rc[2]])
                /\ \A source \in {"H4", "H3", "H2"} :
                       Listed(RuleOf(source), result'.transformations_applied)
                           <=> source \in active

C15_SessionScanFirst ==
    (component = "meta_vault" /\ fs' = fs + 1) =>
        LET active == ActiveSources(gold_collected + CollectorsOn(raw_board'))
        IN  /\ transformed_symbols' = active
            /\ \A rc \in Cells :
                   /\ board'[rc[1]][rc[2]] # raw_board'[rc[1]][rc[2]]
                          => raw_board'[rc[1]][rc[2]].name \in active
                   /\ raw_board'[rc[1]][rc[2]].name \in active \ {"H4"}
                          => board'[rc[1]][rc[2]].name # raw_board'[rc[1]][rc[2]].name

C15_ScanThenTransform == [][C15_EngineScanFirst /\ C15_SessionScanFirst]_vars

C15_Witness ==
    /\ component = "GameEngine"
    /\ calls = 1
    /\ result.returned = "SpinResult"
    /\ result.collector_count = 4
    /\ collectors_in_spin(result.original_reels) = 4
    /\ result.original_reels[1][1] = "H4"
    /\ result.reels[1][1] = "H1"

\* The notifications of collector activity among a sequence of events.
IsCollectorActivity(e) == e.type \in {"collectorCollection", "symbolTransformation"}

\* C16: outside the bonus mode there is no collector activity: a base-game
\* spin never increases the collector counter, never emits a collection or
\* transformation notification, and evaluates the board untransformed.
\* The engine has no bonus mode (free_spins_remaining stays 0 and no phase
\* stands for free spins), so each of its spins is a base-game spin.
C16_BaseSpinStep ==
    \A b \in EngineBets, o \in EngineBoards :
        Spin(b, o) =>
            /\ collector_count' = collector_count
            /\ Len(SelectSeq(result'.events, IsCollectorActivity))
                   = Len(SelectSeq(pending_events, IsCollectorActivity))
            /\ result'.reels = o

C16_NoCollectorActivityInBaseGame == [][C16_BaseSpinStep]_vars

\* The payout a set of win records holds for a symbol, and their sum over a
\* set of symbols.
PayoutFor(ws, sym) ==
    IF \E w \in ws : w.symbol = sym
        THEN (CHOOSE w \in ws : w.symbol = sym).payout
        ELSE 0

RECURSIVE SumOfPayouts(_, _)
SumOfPayouts(ws, syms) ==
    IF syms = {} THEN 0
    ELSE LET sym == CHOOSE x \in syms : TRUE
         IN  PayoutFor(ws, sym) + SumOfPayouts(ws, syms \ {sym})

\* C17: when the Infinite Breach rule is active (collector total >= 15 at
\* evaluation time) the engine doubles the payout of the H1 win record after
\* evaluation and leaves every other record's payout unchanged; when it is
\* not active no payout is changed; the spin's total win is the sum of the
\* payouts after this adjustment.
C17_InfiniteBreachDoubling ==
    (component = "GameEngine" /\ result.returned = "SpinResult") =>
        LET evaluated_wins == evaluate(result.reels, current_bet)
            active == result.collector_count >= 15
        IN  /\ {w.symbol : w \in result.wins} = {w.symbol : w \in evaluated_wins}
            /\ Cardinality(result.wins) = Cardinality(evaluated_wins)
            /\ \A sym \in get_payable_symbols :
                   PayoutFor(result.wins, sym)
                       = (IF active /\ sym = "H1"
                              THEN 2 * PayoutFor(evaluated_wins, sym)
                              ELSE PayoutFor(evaluated_wins, sym))
            /\ result.total_win = SumOfPayouts(result.wins, get_payable_symbols)
            /\ result.multiplier = (IF active THEN 2 ELSE 1)

C17_Witness ==
    /\ component = "GameEngine"
    /\ result.returned = "SpinResult"
    /\ result.collector_count >= 15
    /\ \E w \in result.wins :
           /\ w.symbol = "H1"
           /\ w.payout = 2 * PayoutFor(evaluate(result.reels, current_bet), "H1")
    /\ \E w \in result.wins : w.symbol = "L1" /\ w.payout > 0

\* What a free spin on the drawn board adds to the budget, by the retrigger
\* table of the free game.
SpinsAwarded(names) ==
    LET scatters == Cardinality({rc \in Cells : names[rc[1]][rc[2]] = "S"})
    IN  IF scatters \in DOMAIN freespin_triggers["freegame"]
            THEN freespin_triggers["freegame"][scatters]
            ELSE 0

\* C18: in every reachable state of a free-spin session the budget tot_fs is
\* at most max_freespins = 125, for any sequence of retriggers; a retrigger
\* that would exceed the cap sets the budget to exactly 125.
C18_RetriggerStep ==
    \A names \in SessionBoards, wincap \in BOOLEAN :
        FreeSpinBudget(names, wincap) =>
            tot_fs' = (IF tot_fs + SpinsAwarded(names) > 125
                           THEN 125
                           ELSE tot_fs + SpinsAwarded(names))

C18_BudgetCapped == [](tot_fs <= 125) /\ [][C18_RetriggerStep]_vars

C18_Witness ==
    /\ component = "run_freespin"
    /\ fs_pc = "freespin"
    /\ tot_fs = 125
    /\ fs = 8

\* C19: every free-spin session terminates: with fs advancing by one in
\* each loop iteration, run_freespin plays at most 125 free spins for any
\* sequence of scatter outcomes and then calls end_freespin.
C19_SessionTerminates == [](fs <= 125) /\ <>(fs_pc = "done")

C19_Witness ==
    /\ component = "run_freespin"
    /\ fs_pc = "done"
    /\ fs = 125
    /\ tot_fs = 125

\* C20: the win cap is checked after every free spin: when it is triggered
\* at the end of free spin i, no free spin i+1 is drawn, collected or
\* evaluated in that session, even when fs < tot_fs, and the session still
\* ends through end_freespin.
C20_WincapStep ==
    component = "meta_vault" =>
        /\ \A names \in SessionBoards : FreeSpin(names, TRUE) => fs_pc' = "wincap"
        /\ fs_pc = "wincap" =>
               /\ fs_pc' = "done"
               /\ UNCHANGED <<fs, tot_fs, board, raw_board, gold_collected,
                              transformed_symbols, records, book_events>>

C20_WincapEndsSession ==
    /\ []((component = "meta_vault" /\ fs_pc = "wincap") => ENABLED EndFreespin)
    /\ [][C20_WincapStep]_vars

C20_Witness ==
    /\ component = "meta_vault"
    /\ fs_pc = "done"
    /\ fs = 1
    /\ fs < tot_fs

\* The number of scatters among the drawn names.
ScattersOn(names) == Cardinality({rc \in Cells : names[rc[1]][rc[2]] = "S"})

\* The retrigger table of the free game and the entry table of the base
\* game, as the claim states them.
RetriggerSpins(k) ==
    CASE k = 2 -> 5 [] k = 3 -> 8 [] k = 4 -> 12 [] k = 5 -> 15 [] OTHER -> 0

EntrySpins(k) ==
    CASE k = 3 -> 8 [] k = 4 -> 15 [] k = 5 -> 20 [] OTHER -> 0

\* C21: during an active free-spin session a spin with k scatters adds
\* spins by the retrigger table (2 -> 5, 3 -> 8, 4 -> 12, 5 -> 15) before
\* capping, while entering the bonus from the base game takes at least 3
\* scatters (3 -> 8, 4 -> 15, 5 -> 20); the least scatter count that
\* retriggers (2) is strictly lower than the least that enters (3).
C21_TriggerStep ==
    component = "meta_vault" =>
        /\ \A names \in SessionBoards, wincap \in BOOLEAN :
               FreeSpin(names, wincap) =>
                   tot_fs' = (IF tot_fs + RetriggerSpins(ScattersOn(names)) > 125
                                  THEN 125
                                  ELSE tot_fs + RetriggerSpins(ScattersOn(names)))
        /\ StartFreespin =>
               /\ count_special_symbols(board, "S") >= 3
               /\ tot_fs' = EntrySpins(count_special_symbols(board, "S"))

C21_LeastCounts ==
    /\ \A k \in 0..(REEL_COUNT * ROWS_PER_REEL) :
           /\ k \in DOMAIN freespin_triggers["freegame"] <=> RetriggerSpins(k) > 0
           /\ k \in DOMAIN freespin_triggers["basegame"] <=> EntrySpins(k) > 0
    /\ (component = "meta_vault" /\ fs_pc = "base" /\ count_special_symbols(board, "S") < 3)
           => ~ENABLED StartFreespin
    /\ (component = "meta_vault" /\ fs_pc = "base" /\ count_special_symbols(board, "S") >= 3)
           => ENABLED StartFreespin

MaxWeight == 2

Weights == (0 - 1)..MaxWeight

NoneGiven == [given |-> FALSE, dict |-> <<>>]

\* The distributions a ReelGenerator is constructed with: None, the empty
\* dict, and the dicts over H1 and L1 with weights from Weights.
Distributions ==
    {NoneGiven}
    \cup {[given |-> TRUE, dict |-> d] :
            d \in {<<>>}
                  \cup {<< <<"H1", w>> >> : w \in Weights}
                  \cup {<< <<"L1", w>> >> : w \in Weights}
                  \cup {<< <<"H1", w[1]>>, <<"L1", w[2]>> >> : w \in Weights \X Weights}}

\* The boards the draws of generate_spin are taken from.
DrawnReels ==
    {<<"H1", "H1", "H1", "H1">>, <<"L1", "L1", "L1", "L1">>, <<"H1", "L1", "H1", "L1">>,
     ReelCatalogue[1], ReelCatalogue[2]}

DrawnBoards ==
    {b \in [1..REEL_COUNT -> DrawnReels] : b[2] = b[1] /\ b[4] = b[3] /\ b[5] = b[3]}

DEFAULT_REEL_WEIGHTS ==
    << <<"H1", 2>>, <<"H2", 4>>, <<"H3", 5>>, <<"H4", 6>>, <<"L1", 8>>, <<"L2", 10>>,
       <<"L3", 12>>, <<"L4", 14>>, <<"L6", 16>>, <<"W", 3>>, <<"2X", 1>>, <<"3X", 1>>,
       <<"Scatter", 2>>, <<"Collector", 3>> >>

\* [symbol] * weight: the empty list for a weight of 0 or less
repeat_symbol(symbol, weight) == [k \in 1..weight |-> symbol]

\* ReelGenerator._build_weighted_list, over the items from the k-th on
RECURSIVE build_weighted_list_from(_, _)
build_weighted_list_from(items, k) ==
    IF k > Len(items) THEN <<>>
    ELSE repeat_symbol(items[k][1], items[k][2]) \o build_weighted_list_from(items, k + 1)

_build_weighted_list(items) == build_weighted_list_from(items, 1)

\* `reel_weights or DEFAULT_REEL_WEIGHTS` of the constructor
reel_weights_or_default(arg) ==
    IF arg.given /\ arg.dict # <<>> THEN arg.dict ELSE DEFAULT_REEL_WEIGHTS

\* generate_spin: the boards it can return, every cell an element of
\* weighted_symbols drawn by random.choice
\* random.choice returns an element of weighted_symbols for every cell
can_draw(weighted, b) ==
    \A r \in 1..REEL_COUNT, row \in 1..ROWS_PER_REEL :
        b[r][row] \in {weighted[k] : k \in 1..Len(weighted)}

generate_spin(weighted) == {b \in DrawnBoards : can_draw(weighted, b)}

InitGenerator ==
    /\ component = "ReelGenerator"
    /\ arg_reel_weights = NoneGiven
    /\ reel_weights = <<>>
    /\ weighted_symbols = <<>>
    /\ gen_pc = "new"
    /\ spin_reels = <<>>
    /\ GameIdle /\ GridIdle /\ HarnessIdle /\ BooksIdle /\ QueueIdle
    /\ FunctionIdle

\* ReelGenerator(arg): __init__ with _build_weighted_list
Construct(arg) ==
    /\ component = "ReelGenerator"
    /\ gen_pc = "new"
    /\ arg_reel_weights' = arg
    /\ reel_weights' = reel_weights_or_default(arg)
    /\ weighted_symbols' = _build_weighted_list(reel_weights_or_default(arg))
    /\ gen_pc' = "constructed"
    /\ UNCHANGED <<component, spin_reels, gameVars, exceptGenerator>>

\* generate_spin() returning the board b
GenerateSpin(b) ==
    /\ component = "ReelGenerator"
    /\ gen_pc \in {"constructed", "spun"}
    /\ can_draw(weighted_symbols, b)
    /\ spin_reels' = b
    /\ gen_pc' = "spun"
    /\ UNCHANGED <<component, arg_reel_weights, reel_weights, weighted_symbols, gameVars,
                   exceptGenerator>>

\* generate_spin() on an empty weighted_symbols: random.choice raises
\* IndexError at the first cell
GenerateSpinFails ==
    /\ component = "ReelGenerator"
    /\ gen_pc \in {"constructed", "IndexError"}
    /\ weighted_symbols = <<>>
    /\ gen_pc' = "IndexError"
    /\ UNCHANGED <<component, arg_reel_weights, reel_weights, weighted_symbols,
                   spin_reels, gameVars, exceptGenerator>>

NextGenerator ==
    \/ \E arg \in Distributions : Construct(arg)
    \/ \E b \in DrawnBoards : GenerateSpin(b)
    \/ GenerateSpinFails

SpecGenerator == InitGenerator /\ [][NextGenerator]_vars

\* A distribution is malformed when it is empty or holds a weight <= 0.
Malformed(arg) ==
    arg.given /\ (arg.dict = <<>> \/ \E k \in 1..Len(arg.dict) : arg.dict[k][2] <= 0)

\* C22: constructing the generator with a malformed distribution (an empty
\* one, or one holding a weight <= 0) is rejected at construction time: no
\* generator exists that was built from such a distribution, and none
\* fails or draws from another distribution in generate_spin.
C22_MalformedRejected ==
    (component = "ReelGenerator" /\ gen_pc # "new") =>
        /\ ~Malformed(arg_reel_weights)
        /\ gen_pc # "IndexError"

(***************************************************************************)
(* ways_evaluator.py: WaysEvaluator(reels, bet) for a grid of any shape,   *)
(* then evaluate().  The constructor stores its arguments; the reads       *)
(* self.reels[reel_idx][row_idx] of _evaluate_symbol raise IndexError      *)
(* where the grid has no such cell.                                        *)
(***************************************************************************)
MaxGridReels == 6

MaxGridRows == 5

\* The grids a WaysEvaluator is constructed with: up to MaxGridReels reels
\* of one symbol each, every reel of up to MaxGridRows rows.
GridSymbols == {"H1", "Scatter"}

GridReels ==
    {[row \in 1..n |-> s] : n \in 0..MaxGridRows, s \in GridSymbols}

Grids ==
    UNION {{g \in [1..n -> GridReels] : \A r \in 3..n : g[r] = g[2]} : n \in 0..MaxGridReels}

\* _evaluate_symbol from reel reel_idx on: whether a read of self.reels
\* raises IndexError before the loop ends or breaks
RECURSIVE evaluate_symbol_raises(_, _, _)
evaluate_symbol_raises(grid, target_symbol, reel_idx) ==
    IF reel_idx >= REEL_COUNT THEN FALSE
    ELSE IF reel_idx + 1 > Len(grid) THEN TRUE
    ELSE IF \E row_idx \in 0..(ROWS_PER_REEL - 1) :
                /\ row_idx + 1 > Len(grid[reel_idx + 1])
                /\ \A before \in 0..(row_idx - 1) : before + 1 <= Len(grid[reel_idx + 1])
            THEN TRUE
    ELSE IF reel_row_matches(grid, reel_idx, target_symbol, 0) = <<>> THEN FALSE
    ELSE evaluate_symbol_raises(grid, target_symbol, reel_idx + 1)

\* evaluate(): whether it raises IndexError
evaluate_raises(grid) ==
    \E symbol \in get_payable_symbols : evaluate_symbol_raises(grid, symbol, 0)

InitGrid ==
    /\ component = "WaysEvaluator.__init__"
    /\ reels = <<>> /\ bet = 0 /\ wins = {} /\ evaluated = FALSE
    /\ grid_pc = "new"
    /\ TransformIdle /\ EngineIdle /\ SessionIdle /\ GeneratorIdle /\ HarnessIdle
    /\ BooksIdle /\ QueueIdle
    /\ FunctionIdle

\* WaysEvaluator(grid, b)
ConstructEvaluator(grid, b) ==
    /\ component = "WaysEvaluator.__init__"
    /\ grid_pc = "new"
    /\ reels' = grid
    /\ bet' = b
    /\ wins' = {}
    /\ grid_pc' = "constructed"
    /\ UNCHANGED <<component, evaluated, transformVars, engineVars, sessionVars, exceptGrid>>

\* evaluate() on the stored grid
EvaluateGrid ==
    /\ component = "WaysEvaluator.__init__"
    /\ grid_pc = "constructed"
    /\ IF evaluate_raises(reels)
           THEN grid_pc' = "IndexError" /\ UNCHANGED <<wins, evaluated>>
           ELSE grid_pc' = "evaluated" /\ wins' = evaluate(reels, bet) /\ evaluated' = TRUE
    /\ UNCHANGED <<component, reels, bet, transformVars, engineVars, sessionVars, exceptGrid>>

NextGrid ==
    \/ \E grid \in Grids, b \in Bets : ConstructEvaluator(grid, b)
    \/ EvaluateGrid

SpecGrid == InitGrid /\ [][NextGrid]_vars

\* A grid has valid dimensions when it has 5 reels of 4 rows each.
ValidDimensions(grid) ==
    Len(grid) = 5 /\ \A r \in 1..Len(grid) : Len(grid[r]) = 4

\* C23: a grid with invalid dimensions (a reel count other than 5, or
\* reels of mismatched or non-4 length) is rejected when the evaluator is
\* constructed, before any evaluation is attempted: no evaluator holds
\* such a grid, and none evaluates it or fails on it in evaluate().
C23_InvalidGridRejected ==
    (component = "WaysEvaluator.__init__" /\ grid_pc # "new") =>
        /\ ValidDimensions(reels)
        /\ grid_pc # "IndexError"

(***************************************************************************)
(* ways_evaluator.py: validate_rtp(num_simulations, bet).  The amounts are *)
(* in tenths of a bet unit, the two quotients exact fractions.  The        *)
(* evaluator of each iteration is a local of the loop.                     *)
(***************************************************************************)
MaxSimulations == 2

SimulationCounts == 0..MaxSimulations

HarnessBets == 0..MaxBet

\* sum(w["payout"] for w in evaluator.evaluate()) for every drawn board
\* and bet, as a table computed once (the merge with the empty function
\* enumerates it)
spin_win_of ==
    [x \in DrawnBoards \X HarnessBets |-> total_payout(evaluate(x[1], x[2]))] @@ <<>>

\* if spin_win > 0: hit_count += 1
counts_as_hit_always(spin_win) == TRUE

counts_as_hit(spin_win) == spin_win > 0

\* rtp = total_won / total_wagered if total_wagered > 0 else 0
rtp_of(won, wagered) ==
    IF wagered > 0 THEN Fraction(won, wagered) ELSE Fraction(0, 1)

\* hit_rate = hit_count / num_simulations if num_simulations > 0 else 0
hit_rate_of(hits, n) ==
    IF n > 0 THEN Fraction(hits, n) ELSE Fraction(0, 1)

InitHarness ==
    /\ component = "validate_rtp"
    /\ num_simulations = 0 /\ arg_bet = 0 /\ spins_done = 0
    /\ total_wagered = 0 /\ total_won = 0 /\ hit_count = 0
    /\ rtp_pc = "new"
    /\ stats = NoStats /\ previous_stats = NoStats
    /\ rtp_calls = 0
    /\ GameIdle /\ GeneratorIdle /\ GridIdle /\ BooksIdle /\ QueueIdle
    /\ FunctionIdle

\* validate_rtp(n, b) up to the loop: the generator is constructed and the
\* totals start at zero.
enter_validate_rtp(n, b) ==
    /\ rtp_calls' = rtp_calls + 1
    /\ num_simulations' = n
    /\ arg_bet' = b
    /\ arg_reel_weights' = NoneGiven
    /\ reel_weights' = reel_weights_or_default(NoneGiven)
    /\ weighted_symbols' = _build_weighted_list(reel_weights_or_default(NoneGiven))
    /\ gen_pc' = "constructed"
    /\ spins_done' = 0
    /\ total_wagered' = 0
    /\ total_won' = 0
    /\ hit_count' = 0
    /\ previous_stats' = stats
    /\ rtp_pc' = "loop"
    /\ UNCHANGED <<component, stats, spin_reels, gameVars, exceptHarness>>

\* The first call of validate_rtp
CallValidateRtp(n, b) ==
    /\ component \in {"validate_rtp", "validate_rtp twice"}
    /\ rtp_pc = "new"
    /\ enter_validate_rtp(n, b)

\* A further call of validate_rtp in the same process, with the arguments
\* of the call before
RepeatValidateRtp ==
    /\ component = "validate_rtp twice"
    /\ rtp_pc = "returned"
    /\ rtp_calls < MaxCalls
    /\ enter_validate_rtp(num_simulations, arg_bet)

\* One iteration of the loop, generate_spin returning the board b
SimulateSpin(b) ==
    /\ component \in {"validate_rtp", "validate_rtp twice"}
    /\ rtp_pc = "loop"
    /\ spins_done < num_simulations
    /\ can_draw(weighted_symbols, b)
    /\ spins_done' = spins_done + 1
    /\ total_wagered' = total_wagered + 10 * arg_bet
    /\ total_won' = total_won + spin_win_of[<<b, arg_bet>>]
    /\ hit_count' = IF counts_as_hit(spin_win_of[<<b, arg_bet>>])
                        THEN hit_count + 1 ELSE hit_count
    /\ UNCHANGED <<component, num_simulations, arg_bet, rtp_pc, stats, previous_stats,
                   rtp_calls, generatorVars, gameVars, exceptHarness>>

\* The loop is over: the quotients are taken and the dict is returned
ReturnStats ==
    /\ component \in {"validate_rtp", "validate_rtp twice"}
    /\ rtp_pc = "loop"
    /\ spins_done >= num_simulations
    /\ stats' = [rtp |-> rtp_of(total_won, total_wagered),
                 hit_rate |-> hit_rate_of(hit_count, num_simulations),
                 total_wagered |-> total_wagered,
                 total_won |-> total_won,
                 simulations |-> num_simulations]
    /\ rtp_pc' = "returned"
    /\ UNCHANGED <<component, num_simulations, arg_bet, spins_done, total_wagered,
                   total_won, hit_count, previous_stats, rtp_calls,
                   generatorVars, gameVars, exceptHarness>>

NextHarness ==
    \/ \E n \in SimulationCounts, b \in HarnessBets : CallValidateRtp(n, b)
    \/ \E b \in DrawnBoards : SimulateSpin(b)
    \/ ReturnStats

SpecHarness == InitHarness /\ [][NextHarness]_vars

\* The payout of one spin on the board b at the bet, summed over the
\* paying symbols.
SpinPayouts ==
    [x \in DrawnBoards \X HarnessBets |->
        SumOfPayouts(evaluate(x[1], x[2]), DOMAIN PAYTABLE)] @@ <<>>

SpinPayout(b, atBet) == SpinPayouts[<<b, atBet>>]

\* C24: validate_rtp(n, bet) runs exactly n spins and returns
\* total_wagered = n * bet, total_won = the sum of the n spin payouts,
\* hit_rate = (number of spins with payout > 0) / n and
\* rtp = total_won / total_wagered, with rtp = 0 when nothing was wagered
\* and hit_rate = 0 when n = 0.
C24_Returned ==
    (component = "validate_rtp" /\ rtp_pc = "returned") =>
        /\ spins_done = num_simulations
        /\ stats.simulations = num_simulations
        /\ stats.total_wagered = num_simulations * arg_bet * 10
        /\ stats.total_won = total_won
        /\ stats.hit_rate = (IF num_simulations = 0 THEN Fraction(0, 1)
                                 ELSE Fraction(hit_count, num_simulations))
        /\ stats.rtp = (IF stats.total_wagered = 0 THEN Fraction(0, 1)
                            ELSE Fraction(stats.total_won, stats.total_wagered))
        /\ stats.rtp.den # 0 /\ stats.hit_rate.den # 0

C24_SpinStep ==
    \A b \in DrawnBoards :
        SimulateSpin(b) =>
            /\ spins_done' = spins_done + 1
            /\ total_won' = total_won + SpinPayout(b, arg_bet)
            /\ hit_count' = hit_count + (IF SpinPayout(b, arg_bet) > 0 THEN 1 ELSE 0)

C24_CallStep ==
    (component = "validate_rtp" /\ rtp_pc' = "loop" /\ rtp_pc # "loop") =>
        spins_done' = 0 /\ total_won' = 0 /\ hit_count' = 0 /\ total_wagered' = 0

C24_ValidateRtp == []C24_Returned /\ [][C24_SpinStep /\ C24_CallStep]_vars

C24_Witness ==
    /\ component = "validate_rtp"
    /\ rtp_pc = "returned"
    /\ num_simulations = 2
    /\ arg_bet = 2
    /\ hit_count = 1
    /\ stats.total_won > 0
    /\ stats.total_wagered = 40

(***************************************************************************)
(* validate_rtp called again in the same process with the same arguments.  *)
(* Its signature is (num_simulations, bet): there is no seed to pass, and  *)
(* generate_spin draws from the process-wide generator of module random,   *)
(* which validate_rtp never seeds, so each draw is any board the weights   *)
(* allow.                                                                  *)
(***************************************************************************)
MaxRepeatedSimulations == 1

InitRepeat ==
    /\ component = "validate_rtp twice"
    /\ num_simulations = 0 /\ arg_bet = 0 /\ spins_done = 0
    /\ total_wagered = 0 /\ total_won = 0 /\ hit_count = 0
    /\ rtp_pc = "new"
    /\ stats = NoStats /\ previous_stats = NoStats
    /\ rtp_calls = 0
    /\ GameIdle /\ GeneratorIdle /\ GridIdle /\ BooksIdle /\ QueueIdle
    /\ FunctionIdle

NextRepeat ==
    \/ \E n \in 0..MaxRepeatedSimulations, b \in HarnessBets : CallValidateRtp(n, b)
    \/ RepeatValidateRtp
    \/ \E b \in DrawnBoards : SimulateSpin(b)
    \/ ReturnStats

SpecRepeat == InitRepeat /\ [][NextRepeat]_vars

\* C25: the harness takes an explicit seed, and two runs with the same
\* seed, spin count and configuration return identical aggregate output
\* (the same rtp, hit_rate, total_wagered and total_won), whatever other
\* use of random numbers the process makes.
C25_RunsReproducible ==
    (component = "validate_rtp twice" /\ rtp_pc = "returned" /\ rtp_calls >= 2) =>
        /\ stats.rtp = previous_stats.rtp
        /\ stats.hit_rate = previous_stats.hit_rate
        /\ stats.total_wagered = previous_stats.total_wagered
        /\ stats.total_won = previous_stats.total_won

(***************************************************************************)
(* books.py: serialize_event and deserialize_event.  Python values:        *)
(* None, bool, int, float and str carry their text; list, tuple and set    *)
(* carry their items; dict, dataclass instances and objects with a         *)
(* __dict__ carry (key, value) pairs; an Enum member carries its qualified *)
(* name as text and its value as the one item; a datetime carries its      *)
(* isoformat() as text and its str() as the one item; an opaque value (no  *)
(* __dict__: a complex number, bytes) carries its str(); a cyclic object   *)
(* is one whose __dict__ leads back to itself.  JSON texts are             *)
(* trees of null, true, false, int, float, string, array and object, an    *)
(* object carrying (key text, value) pairs.                                *)
(***************************************************************************)
PyBool(b) == Node("bool", IF b THEN "True" ELSE "False", <<>>)

PyInt(t) == Node("int", t, <<>>)

PyFloat(t) == Node("float", t, <<>>)

PyStr(t) == Node("str", t, <<>>)

PyList(items) == Node("list", "", items)

PyTuple(items) == Node("tuple", "", items)

PySet(items) == Node("set", "", items)

PyDict(pairs) == Node("dict", "", pairs)

PyEnum(qualname, value) == Node("enum", qualname, <<value>>)

PyDatetime(iso, str) == Node("datetime", iso, <<PyStr(str)>>)

PyDataclass(cls, pairs) == Node("dataclass", cls, pairs)

PyObject(cls, pairs) == Node("object", cls, pairs)

PyOpaque(str) == Node("opaque", str, <<>>)

PyCyclic(cls) == Node("cyclic", cls, <<>>)

\* What json encodes by itself
JsonScalarKinds == {"None", "bool", "int", "float", "str"}

\* str(obj), for the values it is taken of
str_of(v) == IF v.kind = "datetime" THEN v.items[1].text ELSE v.text

\* The key of a JSON object for a dict key json accepts
key_text(k) ==
    CASE k.kind = "bool" -> (IF k.text = "True" THEN "true" ELSE "false")
      [] k.kind = "None" -> "null"
      [] OTHER -> k.text

\* dataclasses.asdict
RECURSIVE asdict_inner(_)
asdict_inner(v) ==
    CASE v.kind = "dataclass" ->
             PyDict([k \in 1..Len(v.items) |-> <<v.items[k][1], asdict_inner(v.items[k][2])>>])
      [] v.kind \in {"list", "tuple"} ->
             Node(v.kind, "", [k \in 1..Len(v.items) |-> asdict_inner(v.items[k])])
      [] v.kind = "dict" ->
             PyDict([k \in 1..Len(v.items) |->
                        <<asdict_inner(v.items[k][1]), asdict_inner(v.items[k][2])>>])
      [] OTHER -> v

asdict(v) == asdict_inner(v)

\* EventEncoder.default for an Enum member: obj.value
default_enum_name(v) == PyStr(v.text)

default_enum(v) == v.items[1]

\* EventEncoder.default: whether it raises TypeError, and what it returns
default_raises(v) == v.kind \notin {"enum", "dataclass", "set", "datetime"}

default(v) ==
    CASE v.kind = "enum" -> default_enum(v)
      [] v.kind = "dataclass" -> asdict(v)
      [] v.kind = "set" -> PyList(v.items)
      [] v.kind = "datetime" -> PyStr(v.text)

\* json.dumps(v, cls=EventEncoder) when with_encoder, json.dumps(v)
\* otherwise: whether it raises TypeError, and the text it returns
RECURSIVE dumps_raises(_, _)
dumps_raises(v, with_encoder) ==
    CASE v.kind \in JsonScalarKinds -> FALSE
      [] v.kind \in {"list", "tuple"} ->
             \E k \in 1..Len(v.items) : dumps_raises(v.items[k], with_encoder)
      [] v.kind = "dict" ->
             \E k \in 1..Len(v.items) :
                 \/ v.items[k][1].kind \notin JsonScalarKinds
                 \/ dumps_raises(v.items[k][2], with_encoder)
      [] OTHER ->
             \/ ~with_encoder
             \/ default_raises(v)
             \/ dumps_raises(default(v), with_encoder)

RECURSIVE dumps(_, _)
dumps(v, with_encoder) ==
    CASE v.kind = "None" -> Node("null", "null", <<>>)
      [] v.kind = "bool" -> (IF v.text = "True" THEN Node("true", "true", <<>>)
                                                ELSE Node("false", "false", <<>>))
      [] v.kind = "int" -> Node("int", v.text, <<>>)
      [] v.kind = "float" -> Node("float", v.text, <<>>)
      [] v.kind = "str" -> Node("string", v.text, <<>>)
      [] v.kind \in {"list", "tuple"} ->
             Node("array", "", [k \in 1..Len(v.items) |-> dumps(v.items[k], with_encoder)])
      [] v.kind = "dict" ->
             Node("object", "",
                  [k \in 1..Len(v.items) |->
                      <<key_text(v.items[k][1]), dumps(v.items[k][2], with_encoder)>>])
      [] OTHER -> dumps(default(v), with_encoder)

\* json.loads
RECURSIVE loads(_)
loads(j) ==
    CASE j.kind = "null" -> PyNone
      [] j.kind = "true" -> PyBool(TRUE)
      [] j.kind = "false" -> PyBool(FALSE)
      [] j.kind = "int" -> PyInt(j.text)
      [] j.kind = "float" -> PyFloat(j.text)
      [] j.kind = "string" -> PyStr(j.text)
      [] j.kind = "array" -> PyList([k \in 1..Len(j.items) |-> loads(j.items[k])])
      [] j.kind = "object" ->
             PyDict([k \in 1..Len(j.items) |-> <<PyStr(j.items[k][1]), loads(j.items[k][2])>>])

\* _make_serializable: whether its recursion meets a cyclic object, which it
\* follows until RecursionError
RECURSIVE make_serializable_overflows(_)
make_serializable_overflows(obj) ==
    CASE obj.kind = "cyclic" -> TRUE
      [] obj.kind \in {"dict", "dataclass", "object"} ->
             \E k \in 1..Len(obj.items) : make_serializable_overflows(obj.items[k][2])
      [] obj.kind \in {"list", "tuple", "set"} ->
             \E k \in 1..Len(obj.items) : make_serializable_overflows(obj.items[k])
      [] OTHER -> FALSE

\* _make_serializable: what it returns
RECURSIVE _make_serializable(_)
_make_serializable(obj) ==
    CASE obj.kind = "dict" ->
             PyDict([k \in 1..Len(obj.items) |->
                        <<PyStr(str_of(obj.items[k][1])), _make_serializable(obj.items[k][2])>>])
      [] obj.kind \in {"list", "tuple"} ->
             PyList([k \in 1..Len(obj.items) |-> _make_serializable(obj.items[k])])
      [] obj.kind = "enum" -> obj.items[1]
      [] obj.kind = "set" ->
             PyList([k \in 1..Len(obj.items) |-> _make_serializable(obj.items[k])])
      [] obj.kind = "dataclass" -> _make_serializable(asdict(obj))
      [] obj.kind = "object" -> _make_serializable(PyDict(obj.items))
      [] obj.kind \in JsonScalarKinds -> obj
      [] OTHER -> PyStr(str_of(obj))

Raised(error) == [outcome |-> error, json |-> PyNone]

Returned(j) == [outcome |-> "returned", json |-> j]

\* serialize_event: the JSON text it returns, or the error it raises
serialize_event(e) ==
    IF ~dumps_raises(e, TRUE) THEN Returned(dumps(e, TRUE))
    ELSE IF make_serializable_overflows(e) THEN Raised("RecursionError")
    ELSE IF dumps_raises(_make_serializable(e), FALSE) THEN Raised("TypeError")
    ELSE Returned(dumps(_make_serializable(e), FALSE))

\* deserialize_event
deserialize_event(j) == loads(j)

\* The members of Symbol and GamePhase that events carry.
SymbolH1 == PyEnum("Symbol.H1", PyStr("H1"))

SymbolW2X == PyEnum("Symbol.W2X", PyStr("2X"))

PhaseIdle == PyEnum("GamePhase.IDLE", PyStr("idle"))

\* The field values of events: JSON-native values and Enum members ...
NativeValues ==
    {PyNone, PyBool(TRUE), PyInt("3"), PyFloat("4.5"), PyStr("H1"),
     SymbolH1, SymbolW2X, PhaseIdle,
     PyList(<<>>), PyList(<<PyInt("3"), SymbolW2X>>),
     PyDict(<< <<PyStr("symbol"), SymbolH1>>, <<PyStr("count"), PyInt("3")>> >>),
     PyList(<< PyDict(<< <<PyStr("symbol"), SymbolW2X>> >>) >>)}

\* ... and values of other types
OtherValues ==
    {PyTuple(<<PyInt("0"), PyInt("1")>>),
     PySet(<<PyInt("3")>>),
     PySet(<<SymbolH1>>),
     PyDatetime("2024-01-01T10:00:00", "2024-01-01 10:00:00"),
     PyDataclass("PayoutEntry", << <<PyStr("symbol"), SymbolH1>>,
                                   <<PyStr("min_count"), PyInt("3")>>,
                                   <<PyStr("payout_multiplier"), PyFloat("5.0")>> >>),
     PyDict(<< <<SymbolH1, PyInt("3")>> >>),
     PyObject("Marker", <<>>),
     PyObject("Win", << <<PyStr("payout"), PyFloat("4.5")>> >>),
     PyOpaque("(1+2j)"),
     PyCyclic("Node")}

EventValues == NativeValues \cup OtherValues

\* The events: a type and two more fields.
Events ==
    {PyDict(<< <<PyStr("type"), PyStr("spinResult")>>,
               <<PyStr("first"), x[1]>>, <<PyStr("second"), x[2]>> >>) :
        x \in EventValues \X EventValues}

InitBooks ==
    /\ component = "books"
    /\ event = PyNone
    /\ serialized = [outcome |-> "nothing", json |-> PyNone]
    /\ deserialized = PyNone
    /\ books_pc = "new"
    /\ GameIdle /\ GeneratorIdle /\ GridIdle /\ HarnessIdle /\ QueueIdle
    /\ FunctionIdle

\* serialize_event(e)
SerializeEvent(e) ==
    /\ component = "books"
    /\ books_pc = "new"
    /\ event' = e
    /\ serialized' = serialize_event(e)
    /\ books_pc' = "serialized"
    /\ UNCHANGED <<component, deserialized, gameVars, exceptBooks>>

\* deserialize_event on the text serialize_event returned
DeserializeEvent ==
    /\ component = "books"
    /\ books_pc = "serialized"
    /\ serialized.outcome = "returned"
    /\ deserialized' = deserialize_event(serialized.json)
    /\ books_pc' = "deserialized"
    /\ UNCHANGED <<component, event, serialized, gameVars, exceptBooks>>

NextBooks ==
    \/ \E e \in Events : SerializeEvent(e)
    \/ DeserializeEvent

SpecBooks == InitBooks /\ [][NextBooks]_vars

\* A value built from JSON-native values (with string keys) and Enum
\* members only.
RECURSIVE JsonNativeOrEnum(_)
JsonNativeOrEnum(v) ==
    CASE v.kind \in JsonScalarKinds \cup {"enum"} -> TRUE
      [] v.kind = "list" -> \A k \in 1..Len(v.items) : JsonNativeOrEnum(v.items[k])
      [] v.kind = "dict" ->
             \A k \in 1..Len(v.items) :
                 v.items[k][1].kind = "str" /\ JsonNativeOrEnum(v.items[k][2])
      [] OTHER -> FALSE

\* The string code of an Enum member.
StringCode(qualname) ==
    CASE qualname = "Symbol.H1" -> "H1"
      [] qualname = "Symbol.W2X" -> "2X"
      [] qualname = "GamePhase.IDLE" -> "idle"

\* The value with every Enum member replaced by its string code.
RECURSIVE EnumsAsCodes(_)
EnumsAsCodes(v) ==
    CASE v.kind = "enum" -> PyStr(StringCode(v.text))
      [] v.kind = "list" -> PyList([k \in 1..Len(v.items) |-> EnumsAsCodes(v.items[k])])
      [] v.kind = "dict" ->
             PyDict([k \in 1..Len(v.items) |-> <<v.items[k][1], EnumsAsCodes(v.items[k][2])>>])
      [] OTHER -> v

KeysOf(d) == [k \in 1..Len(d.items) |-> d.items[k][1]]

\* C26: for every event built from JSON-native values and Enum values,
\* deserialize_event(serialize_event(e)) has the same keys as e and
\* reproduces every field value, except that each Enum-typed value is
\* replaced by its string code (Symbol.H1 -> "H1", Symbol.W2X -> "2X").
C26_RoundTrip ==
    (component = "books" /\ books_pc # "new" /\ JsonNativeOrEnum(event)) =>
        /\ serialized.outcome = "returned"
        /\ books_pc = "deserialized" =>
               /\ deserialized.kind = "dict"
               /\ KeysOf(deserialized) = KeysOf(event)
               /\ deserialized = EnumsAsCodes(event)

C26_Witness ==
    /\ component = "books"
    /\ books_pc = "deserialized"
    /\ JsonNativeOrEnum(event)
    /\ event.items[2][2] = SymbolW2X
    /\ deserialized.items[2][2] = PyStr("2X")
    /\ event.items[3][2] = PyList(<<PyInt("3"), SymbolW2X>>)

\* A value of a type neither json nor EventEncoder serializes.
Unexpected(v) == v.kind \in {"object", "opaque", "cyclic"}

\* C27: serialize_event never raises for an event dictionary containing a
\* value of an unexpected (non-JSON-serializable) type: the offending value
\* is replaced by its string representation and a JSON string is returned,
\* while every serializable field of the same event keeps its value.
C27_FallbackNeverRaises ==
    (component = "books" /\ books_pc # "new"
        /\ \E k \in 1..Len(event.items) : Unexpected(event.items[k][2])) =>
        /\ serialized.outcome = "returned"
        /\ \A k \in 1..Len(event.items) :
               LET value == event.items[k][2]
                   written == serialized.json.items[k][2]
               IN  /\ Unexpected(value) => written.kind = "string"
                   /\ ~dumps_raises(value, TRUE) => written = dumps(value, TRUE)

(***************************************************************************)
(* books.py: EventQueue over queue.Queue(maxsize=max_size).  The queue     *)
(* holds the serialized events, oldest first.  A maxsize of 0 or less      *)
(* makes a queue.Queue that is never full.                                 *)
(***************************************************************************)
MaxQueueSize == 2

MaxPushCalls == 3

\* The max_size an EventQueue is constructed with
QueueSizes == 0..MaxQueueSize

IndexText == <<"1", "2", "3", "4", "5">>

\* The events of the i-th push call: a test event with its index, without
\* and with a symbol field
QueueEvents(i) ==
    {PyDict(<< <<PyStr("type"), PyStr("test")>>, <<PyStr("index"), PyInt(IndexText[i])>> >>),
     PyDict(<< <<PyStr("type"), PyStr("test")>>, <<PyStr("index"), PyInt(IndexText[i])>>,
               <<PyStr("symbol"), SymbolH1>> >>)}

\* queue.Queue: full() under put_nowait
queue_full_above(q, maxsize) == maxsize > 0 /\ Len(q) > maxsize

queue_full(q, maxsize) == maxsize > 0 /\ Len(q) >= maxsize

\* queue.Queue: get_nowait on a queue that is not empty
queue_get_newest(q) == [item |-> q[Len(q)], rest |-> SubSeq(q, 1, Len(q) - 1)]

queue_get_kept(q) == [item |-> Head(q), rest |-> q]

queue_get(q) == [item |-> Head(q), rest |-> Tail(q)]

\* size()
size(q) == Len(q)

\* push(e): the queue after it and what it returns (or raises)
push(q, maxsize, e) ==
    IF serialize_event(e).outcome # "returned"
        THEN [queue |-> q, returned |-> PyStr(serialize_event(e).outcome), ok |-> FALSE]
    ELSE IF queue_full(q, maxsize)
        THEN [queue |-> q, returned |-> PyBool(FALSE), ok |-> FALSE]
    ELSE [queue |-> Append(q, serialize_event(e).json), returned |-> PyBool(TRUE), ok |-> TRUE]

\* pop(): the queue after it and what it returns
pop(q) ==
    IF q = <<>> THEN [queue |-> q, returned |-> PyNone, taken |-> FALSE]
    ELSE [queue |-> queue_get(q).rest, returned |-> deserialize_event(queue_get(q).item),
          taken |-> TRUE]

\* flush(): the queue after it and the list it returns.  The loop stops at
\* the first pop that returns None.
RECURSIVE flush(_)
flush(q) ==
    IF pop(q).returned = PyNone
        THEN [queue |-> pop(q).queue, events |-> <<>>,
              taken |-> IF pop(q).taken THEN 1 ELSE 0]
        ELSE [queue |-> flush(pop(q).queue).queue,
              events |-> <<pop(q).returned>> \o flush(pop(q).queue).events,
              taken |-> 1 + flush(pop(q).queue).taken]

\* clear(): the number of get_nowait calls that take an item until empty()
RECURSIVE clear(_)
clear(q) ==
    IF q = <<>> THEN [queue |-> q, taken |-> 0]
    ELSE [queue |-> clear(queue_get(q).rest).queue,
          taken |-> 1 + clear(queue_get(q).rest).taken]

\* EventQueue(max_size), used by one thread
InitQueue ==
    /\ component = "EventQueue"
    /\ max_size \in QueueSizes
    /\ _queue = <<>>
    /\ lock_holder = 0
    /\ thread_pc = <<>> /\ flush_events = <<>>
    /\ last_call = NoCall
    /\ push_calls = 0 /\ pushed = <<>> /\ delivered = <<>> /\ cleared = 0
    /\ GameIdle /\ GeneratorIdle /\ GridIdle /\ HarnessIdle /\ BooksIdle
    /\ FunctionIdle

Push(e) ==
    /\ component = "EventQueue"
    /\ push_calls < MaxPushCalls
    /\ e \in QueueEvents(push_calls + 1)
    /\ push_calls' = push_calls + 1
    /\ _queue' = push(_queue, max_size, e).queue
    /\ pushed' = IF push(_queue, max_size, e).ok THEN Append(pushed, e) ELSE pushed
    /\ last_call' = [op |-> "push", thread |-> 1, returned |-> push(_queue, max_size, e).returned]
    /\ UNCHANGED <<component, max_size, lock_holder, thread_pc, flush_events, delivered,
                   cleared, gameVars, exceptQueue>>

Pop ==
    /\ component = "EventQueue"
    /\ _queue' = pop(_queue).queue
    /\ delivered' = IF pop(_queue).taken THEN Append(delivered, pop(_queue).returned)
                                         ELSE delivered
    /\ last_call' = [op |-> "pop", thread |-> 1, returned |-> pop(_queue).returned]
    /\ UNCHANGED <<component, max_size, lock_holder, thread_pc, flush_events, push_calls,
                   pushed, cleared, gameVars, exceptQueue>>

Flush ==
    /\ component = "EventQueue"
    /\ _queue' = flush(_queue).queue
    /\ delivered' = delivered \o flush(_queue).events
    /\ last_call' = [op |-> "flush", thread |-> 1, returned |-> PyList(flush(_queue).events)]
    /\ UNCHANGED <<component, max_size, lock_holder, thread_pc, flush_events, push_calls,
                   pushed, cleared, gameVars, exceptQueue>>

Clear ==
    /\ component = "EventQueue"
    /\ lock_holder = 0
    /\ _queue' = clear(_queue).queue
    /\ cleared' = cleared + clear(_queue).taken
    /\ last_call' = [op |-> "clear", thread |-> 1, returned |-> PyNone]
    /\ UNCHANGED <<component, max_size, lock_holder, thread_pc, flush_events, push_calls,
                   pushed, delivered, gameVars, exceptQueue>>

NextQueue ==
    \/ \E i \in 1..MaxPushCalls : \E e \in QueueEvents(i) : Push(e)
    \/ Pop
    \/ Flush
    \/ Clear

SpecQueue == InitQueue /\ [][NextQueue]_vars

\* C28 as stated: in every reachable state size() <= max_size.
C28_SizeAtMostMaxSize == component = "EventQueue" => size(_queue) <= max_size

\* The steps of C28: push returns True and increases size by one when the
\* queue is not full, and returns False leaving the contents unchanged when
\* it is full; pop on an empty queue returns None and leaves it empty.
C28_PushPopStep ==
    component = "EventQueue" =>
        /\ \A e \in QueueEvents(push_calls + 1) :
               Push(e) =>
                   IF max_size >= 1 /\ size(_queue) = max_size
                       THEN last_call'.returned = PyBool(FALSE) /\ _queue' = _queue
                       ELSE /\ last_call'.returned = PyBool(TRUE)
                            /\ size(_queue') = size(_queue) + 1
        /\ (Pop /\ size(_queue) = 0) => (last_call'.returned = PyNone /\ size(_queue') = 0)

\* C28, amended: an EventQueue constructed with max_size >= 1 is bounded,
\* size() <= max_size in every reachable state (with max_size <= 0 it is
\* never full); push returns True and increases size by one when the queue
\* is not full, and returns False leaving the queue contents unchanged when
\* it is full; pop on an empty queue returns None and leaves it empty.
C28_BoundedForPositiveMaxSize ==
    /\ []((component = "EventQueue" /\ max_size >= 1) => size(_queue) <= max_size)
    /\ [][C28_PushPopStep]_vars

C28_Witness ==
    /\ component = "EventQueue"
    /\ max_size = 2
    /\ size(_queue) = 2
    /\ last_call.op = "push"
    /\ last_call.returned = PyBool(FALSE)

\* The events push returned True for that no pop, flush or clear has taken
\* out yet, oldest first.
Outstanding == SubSeq(pushed, Len(delivered) + cleared + 1, Len(pushed))

\* C29 as stated: flush() returns exactly the events successfully pushed
\* and not yet popped, in push order, and leaves size() = 0; pop() returns
\* the oldest queued event.
C29_StatedStep ==
    component = "EventQueue" =>
        /\ Flush => (last_call'.returned = PyList(Outstanding) /\ size(_queue') = 0)
        /\ (Pop /\ size(_queue) > 0) => last_call'.returned = Outstanding[1]

C29_FlushReturnsPushedEvents == [][C29_StatedStep]_vars

\* C29, amended: EventQueue is FIFO; with no concurrent producers flush()
\* returns, in push order, the deserialized form of exactly the events
\* successfully pushed and not yet popped (each Enum value as its string
\* code, equal to the pushed event when it holds none) and leaves
\* size() = 0; pop() returns the deserialized form of the oldest queued
\* event.
C29_DeliveredStep ==
    component = "EventQueue" =>
        /\ Flush =>
               /\ last_call'.returned =
                      PyList([k \in 1..Len(Outstanding) |-> EnumsAsCodes(Outstanding[k])])
               /\ size(_queue') = 0
        /\ (Pop /\ size(_queue) > 0) =>
               last_call'.returned = EnumsAsCodes(Outstanding[1])

C29_FifoInDeliveredForm ==
    /\ [](component = "EventQueue" => Len(Outstanding) = size(_queue))
    /\ [][C29_DeliveredStep]_vars

C29_Witness ==
    /\ component = "EventQueue"
    /\ last_call.op = "flush"
    /\ Len(last_call.returned.items) = 2
    /\ last_call.returned.items[1].items[2][2] = PyInt("2")
    /\ last_call.returned.items[2].items[2][2] = PyInt("3")
    /\ Len(last_call.returned.items[2].items) = 3
    /\ last_call.returned.items[2].items[3][2] = PyStr("H1")
    /\ Len(delivered) = 3

(***************************************************************************)
(* EventQueue called from several threads.  put_nowait, get_nowait and     *)
(* empty() of queue.Queue are atomic; serialization and deserialization    *)
(* work on the calling thread's own data.  push and pop are one queue      *)
(* operation each; flush is a loop of pops; clear takes self._lock and     *)
(* alternates empty() and get_nowait().                                    *)
(***************************************************************************)
NumThreads == 2

MaxThreadPushCalls == 2

Threads == 1..NumThreads

InitThreads ==
    /\ component = "EventQueue threads"
    /\ max_size \in QueueSizes
    /\ _queue = <<>>
    /\ lock_holder = 0
    /\ thread_pc = [t \in Threads |-> "idle"]
    /\ flush_events = [t \in Threads |-> <<>>]
    /\ last_call = NoCall
    /\ push_calls = 0 /\ pushed = <<>> /\ delivered = <<>> /\ cleared = 0
    /\ GameIdle /\ GeneratorIdle /\ GridIdle /\ HarnessIdle /\ BooksIdle
    /\ FunctionIdle

\* push(e) by thread t
ThreadPush(t, e) ==
    /\ component = "EventQueue threads"
    /\ thread_pc[t] = "idle"
    /\ push_calls < MaxThreadPushCalls
    /\ e \in QueueEvents(push_calls + 1)
    /\ push_calls' = push_calls + 1
    /\ _queue' = push(_queue, max_size, e).queue
    /\ pushed' = IF push(_queue, max_size, e).ok THEN Append(pushed, e) ELSE pushed
    /\ last_call' = [op |-> "push", thread |-> t, returned |-> push(_queue, max_size, e).returned]
    /\ UNCHANGED <<component, max_size, lock_holder, thread_pc, flush_events, delivered,
                   cleared, gameVars, exceptQueue>>

\* pop() by thread t
ThreadPop(t) ==
    /\ component = "EventQueue threads"
    /\ thread_pc[t] = "idle"
    /\ _queue' = pop(_queue).queue
    /\ delivered' = IF pop(_queue).taken THEN Append(delivered, pop(_queue).returned)
                                         ELSE delivered
    /\ last_call' = [op |-> "pop", thread |-> t, returned |-> pop(_queue).returned]
    /\ UNCHANGED <<component, max_size, lock_holder, thread_pc, flush_events, push_calls,
                   pushed, cleared, gameVars, exceptQueue>>

\* flush() by thread t: events = []
FlushBegin(t) ==
    /\ component = "EventQueue threads"
    /\ thread_pc[t] = "idle"
    /\ thread_pc' = [thread_pc EXCEPT ![t] = "flush"]
    /\ flush_events' = [flush_events EXCEPT ![t] = <<>>]
    /\ UNCHANGED <<component, max_size, _queue, lock_holder, last_call, push_calls,
                   pushed, delivered, cleared, gameVars, exceptQueue>>

\* One pass of the loop of flush: self.pop(), then break and return, or
\* append
FlushPop(t) ==
    /\ component = "EventQueue threads"
    /\ thread_pc[t] = "flush"
    /\ _queue' = pop(_queue).queue
    /\ delivered' = IF pop(_queue).taken THEN Append(delivered, pop(_queue).returned)
                                         ELSE delivered
    /\ IF pop(_queue).returned = PyNone
           THEN /\ thread_pc' = [thread_pc EXCEPT ![t] = "idle"]
                /\ last_call' = [op |-> "flush", thread |-> t,
                                 returned |-> PyList(flush_events[t])]
                /\ UNCHANGED flush_events
           ELSE /\ flush_events' =
                       [flush_events EXCEPT ![t] = Append(@, pop(_queue).returned)]
                /\ UNCHANGED <<thread_pc, last_call>>
    /\ UNCHANGED <<component, max_size, lock_holder, push_calls, pushed, cleared,
                   gameVars, exceptQueue>>

\* clear() by thread t: with self._lock
ClearAcquire(t) ==
    /\ component = "EventQueue threads"
    /\ thread_pc[t] = "idle"
    /\ lock_holder = 0
    /\ lock_holder' = t
    /\ thread_pc' = [thread_pc EXCEPT ![t] = "clear"]
    /\ UNCHANGED <<component, max_size, _queue, flush_events, last_call, push_calls,
                   pushed, delivered, cleared, gameVars, exceptQueue>>

\* while not self._queue.empty(): the lock is released when it is empty
ClearTest(t) ==
    /\ component = "EventQueue threads"
    /\ thread_pc[t] = "clear"
    /\ IF _queue = <<>>
           THEN /\ thread_pc' = [thread_pc EXCEPT ![t] = "idle"]
                /\ lock_holder' = 0
                /\ last_call' = [op |-> "clear", thread |-> t, returned |-> PyNone]
           ELSE /\ thread_pc' = [thread_pc EXCEPT ![t] = "clear_get"]
                /\ UNCHANGED <<lock_holder, last_call>>
    /\ UNCHANGED <<component, max_size, _queue, flush_events, push_calls, pushed,
                   delivered, cleared, gameVars, exceptQueue>>

\* self._queue.get_nowait() inside clear; queue.Empty breaks the loop
ClearGet(t) ==
    /\ component = "EventQueue threads"
    /\ thread_pc[t] = "clear_get"
    /\ IF _queue = <<>>
           THEN /\ thread_pc' = [thread_pc EXCEPT ![t] = "idle"]
                /\ lock_holder' = 0
                /\ last_call' = [op |-> "clear", thread |-> t, returned |-> PyNone]
                /\ UNCHANGED <<_queue, cleared>>
           ELSE /\ _queue' = queue_get(_queue).rest
                /\ cleared' = cleared + 1
                /\ thread_pc' = [thread_pc EXCEPT ![t] = "clear"]
                /\ UNCHANGED <<lock_holder, last_call>>
    /\ UNCHANGED <<component, max_size, flush_events, push_calls, pushed, delivered,
                   gameVars, exceptQueue>>

NextThreads ==
    \/ \E t \in Threads, i \in 1..MaxThreadPushCalls :
           \E e \in QueueEvents(i) : ThreadPush(t, e)
    \/ \E t \in Threads : ThreadPop(t)
    \/ \E t \in Threads : FlushBegin(t)
    \/ \E t \in Threads : FlushPop(t)
    \/ \E t \in Threads : ClearAcquire(t)
    \/ \E t \in Threads : ClearTest(t)
    \/ \E t \in Threads : ClearGet(t)

SpecThreads == InitThreads /\ [][NextThreads]_vars

\* No event is delivered twice; every event delivered was pushed; the
\* successful pushes are the events delivered, removed by clear and queued.
Conservation ==
    /\ \A i, j \in 1..Len(delivered) : i # j => delivered[i] # delivered[j]
    /\ \A i \in 1..Len(delivered) :
           \E k \in 1..Len(pushed) : delivered[i] = EnumsAsCodes(pushed[k])
    /\ Len(pushed) = Len(delivered) + cleared + size(_queue)

\* C30 as stated: under any interleaving of push, pop, flush and clear
\* calls from several threads, no event is delivered twice and no
\* successfully pushed event is lost other than by clear, i.e. (successful
\* pushes) = (events returned by pop/flush) + (events removed by clear) +
\* size(), and size() never exceeds max_size.
C30_ThreadSafe ==
    component = "EventQueue threads" =>
        /\ Conservation
        /\ size(_queue) <= max_size

\* C30, amended: the same, with size() never exceeding max_size for a
\* queue constructed with max_size >= 1.
C30_ThreadSafeForPositiveMaxSize ==
    component = "EventQueue threads" =>
        /\ Conservation
        /\ max_size >= 1 => size(_queue) <= max_size

C30_Witness ==
    /\ component = "EventQueue threads"
    /\ thread_pc[1] = "flush"
    /\ Len(flush_events[1]) = 1
    /\ thread_pc[2] = "clear"
    /\ cleared = 1
    /\ Len(delivered) = 1

(***************************************************************************)
(* The positions of a win record.                                          *)
(***************************************************************************)
\* The (reel, row) pairs, as the code numbers them (from 0), of the cells
\* on reels 1..n that hold the symbol or a substituting wild.
MatchingCells(grid, sym, n) ==
    {<<r - 1, row - 1>> : r \in 1..n, row \in 1..ROWS_PER_REEL} \cap
    {p \in (0..(REEL_COUNT - 1)) \X (0..(ROWS_PER_REEL - 1)) :
        CellMatches(grid, p[1] + 1, p[2] + 1, sym)}

ListedOnce(list) ==
    \A i, j \in 1..Len(list) : list[i] = list[j] => i = j

\* C31: the positions of a win record for symbol S are exactly the
\* (reel, row) pairs of the cells on reels 1..count that hold S or a
\* substituting wild, each listed once; no cell on or after the first reel
\* without a match is listed.
C31_PositionsAreTheMatchingCells ==
    evaluated =>
        \A w \in wins :
            /\ ListedOnce(w.positions)
            /\ {w.positions[i] : i \in 1..Len(w.positions)}
                   = MatchingCells(reels, w.symbol, w.count)
            /\ \A i \in 1..Len(w.positions) :
                   w.positions[i][1] < ChainLength(reels, w.symbol)

\* A win of three reels with two matching cells on one reel, one of them a
\* wild, on a board whose fifth reel holds the symbol after the break.
C31_Witness ==
    /\ evaluated
    /\ \E w \in wins :
          /\ w.count = 3
          /\ Len(w.positions) > 3
          /\ \E row \in 1..ROWS_PER_REEL : reels[5][row] = w.symbol
          /\ \E i \in 1..Len(w.positions) :
                reels[w.positions[i][1] + 1][w.positions[i][2] + 1] \in WILD_SYMBOLS

(***************************************************************************)
(* The threshold functions: game_config.get_active_transformations,        *)
(* game_override.calculate_transformation_level and                        *)
(* get_infinite_breach_multiplier, and the transformation step of          *)
(* GameCalculations.calculate_win, each called with the collector count    *)
(* that apply_transformations is called with.                              *)
(***************************************************************************)
\* get_active_transformations: the loop over sorted(TRANSFORMATION_THRESHOLDS.items())
RECURSIVE get_active_transformations_from(_, _)
get_active_transformations_from(count, k) ==
    IF k > Len(sorted_thresholds) THEN <<>>
    ELSE (IF count >= sorted_thresholds[k]
              THEN <<TRANSFORMATION_THRESHOLDS[sorted_thresholds[k]]>>
              ELSE <<>>)
         \o get_active_transformations_from(count, k + 1)

get_active_transformations(count) == get_active_transformations_from(count, 1)

\* calculate_transformation_level
calculate_transformation_level_from_16(count) ==
    IF count > 15 THEN 4
    ELSE IF count >= 13 THEN 3
    ELSE IF count >= 7 THEN 2
    ELSE IF count >= 4 THEN 1
    ELSE 0

calculate_transformation_level(count) ==
    IF count >= 15 THEN 4
    ELSE IF count >= 13 THEN 3
    ELSE IF count >= 7 THEN 2
    ELSE IF count >= 4 THEN 1
    ELSE 0

\* get_infinite_breach_multiplier: the floats 2.0 and 1.0
get_infinite_breach_multiplier(count) == IF count >= 15 THEN 2 ELSE 1

\* self.persistent_data.get('collector_count', 0)
persistent_collector_count(data) ==
    IF "collector_count" \in DOMAIN data THEN data["collector_count"] ELSE 0

\* calculate_win, step 2: the transform_map chosen by the if / elif chain
calculate_win_transform_map(current_g_count) ==
    IF current_g_count >= 13
        THEN ("H4" :> "H1" @@ "H3" :> "H1" @@ "H2" :> "H1")
    ELSE IF current_g_count >= 7
        THEN ("H4" :> "H1" @@ "H3" :> "H1")
    ELSE IF current_g_count >= 4
        THEN ("H4" :> "H1")
    ELSE <<>>

\* wild_multiplier_weights: the names rng.choices draws from, both with a
\* positive weight
wild_multiplier_weights == ("W2X" :> 60 @@ "W3X" :> 40)

\* The boards calculate_win is called on: each reel holds at most one W.
CalculationBoards ==
    {b \in [1..REEL_COUNT -> {<<"H4", "H3", "H2", "L1">>, <<"W", "S", "G", "H1">>}] :
        b[2] = b[1] /\ b[4] = b[3] /\ b[5] = b[3]}

\* What rng.choices returns for the W of each reel.
WildChoices == [1..REEL_COUNT -> DOMAIN wild_multiplier_weights]

\* calculate_win, steps 1 and 2, on one symbol of the board: its name and
\* its multiplier (the 'transformed' attribute shown by the frontend is not
\* kept).
calculate_win_symbol(symbol, chosen_wild, map) ==
    LET assigned ==
            IF symbol.name = "W"
                THEN [name |-> chosen_wild,
                      multiplier |-> wild_multiplier_values[chosen_wild]]
                ELSE symbol
    IN  IF assigned.name \in DOMAIN map
            THEN [assigned EXCEPT !.name = map[assigned.name]]
            ELSE assigned

InitThresholds ==
    /\ component = "threshold functions"
    /\ arg_reels \in Boards(1)
    /\ arg_collector_count \in 0..MaxCollectorCount
    /\ transformed_reels = <<>>
    /\ applied_transformations = <<>>
    /\ returned = FALSE
    /\ EvalIdle /\ EngineIdle
    /\ gametype \in {"basegame", "freegame"}
    /\ fs_pc = "absent"
    /\ board \in {draw_board(names) : names \in CalculationBoards}
    /\ raw_board = <<>>
    /\ gold_collected = 0 /\ transformed_symbols = {}
    /\ fs = 0 /\ tot_fs = 0 /\ records = <<>> /\ book_events = <<>>
    /\ GeneratorIdle /\ GridIdle /\ HarnessIdle /\ BooksIdle /\ QueueIdle /\ WildIdle
    /\ EntryIdle
    /\ persistent_data \in
           {[collector_count |-> arg_collector_count]}
           \cup (IF arg_collector_count = 0 THEN {<<>>} ELSE {})
    /\ calc_transform_map = <<>>
    /\ active_transformations = <<>>
    /\ level_returned = 0
    /\ breach_multiplier = 0
    /\ threshold_calls = {}

GetActiveTransformations ==
    /\ component = "threshold functions"
    /\ "get_active_transformations" \notin threshold_calls
    /\ active_transformations' = get_active_transformations(arg_collector_count)
    /\ threshold_calls' = threshold_calls \cup {"get_active_transformations"}
    /\ UNCHANGED <<component, gameVars, generatorVars, gridVars, harnessVars, booksVars,
                   queueVars, wildVars, entryVars,
                   persistent_data, calc_transform_map, level_returned,
                   breach_multiplier>>

CalculateTransformationLevel ==
    /\ component = "threshold functions"
    /\ "calculate_transformation_level" \notin threshold_calls
    /\ level_returned' = calculate_transformation_level(arg_collector_count)
    /\ threshold_calls' = threshold_calls \cup {"calculate_transformation_level"}
    /\ UNCHANGED <<component, gameVars, generatorVars, gridVars, harnessVars, booksVars,
                   queueVars, wildVars, entryVars,
                   persistent_data, calc_transform_map,
                   active_transformations, breach_multiplier>>

GetInfiniteBreachMultiplier ==
    /\ component = "threshold functions"
    /\ "get_infinite_breach_multiplier" \notin threshold_calls
    /\ breach_multiplier' = get_infinite_breach_multiplier(arg_collector_count)
    /\ threshold_calls' = threshold_calls \cup {"get_infinite_breach_multiplier"}
    /\ UNCHANGED <<component, gameVars, generatorVars, gridVars, harnessVars, booksVars,
                   queueVars, wildVars, entryVars,
                   persistent_data, calc_transform_map,
                   active_transformations, level_returned>>

\* calculate_win up to the ways evaluation: the wild assignment and the
\* transformation of self.board.  The win data that follows is computed by
\* Ways.get_ways_wins of the SDK and is not part of this state.
CalculateWin(chosen) ==
    /\ component = "threshold functions"
    /\ "calculate_win" \notin threshold_calls
    /\ LET map == IF gametype = "freegame"
                      THEN calculate_win_transform_map(
                               persistent_collector_count(persistent_data))
                      ELSE <<>>
       IN  /\ calc_transform_map' = map
           /\ board' =
                 IF gametype = "freegame"
                     THEN [r \in 1..Len(board) |->
                              [row \in 1..Len(board[r]) |->
                                  calculate_win_symbol(board[r][row], chosen[r], map)]]
                     ELSE board
    /\ threshold_calls' = threshold_calls \cup {"calculate_win"}
    /\ UNCHANGED <<component, evalVars, transformVars, engineVars, gametype, fs_pc,
                   raw_board, gold_collected, transformed_symbols, fs, tot_fs, records,
                   book_events, generatorVars, gridVars, harnessVars, booksVars,
                   queueVars, wildVars, entryVars,
                   persistent_data, active_transformations, level_returned,
                   breach_multiplier>>

NextThresholds ==
    \/ ApplyTransformations
    \/ GetActiveTransformations
    \/ CalculateTransformationLevel
    \/ GetInfiniteBreachMultiplier
    \/ \E chosen \in WildChoices : CalculateWin(chosen)

SpecThresholds == InitThresholds /\ [][NextThresholds]_vars

\* The level the claim tabulates for a collector count.
StatedLevel(c) ==
    CASE c < 4 -> 0
      [] c \in 4..6 -> 1
      [] c \in 7..12 -> 2
      [] c \in 13..14 -> 3
      [] OTHER -> 4

\* C32: for every collector count c >= 0 the threshold functions agree: the
\* list apply_transformations(_, c) returns equals
\* get_active_transformations(c), its length equals
\* calculate_transformation_level(c), which is 0 below 4, 1 for 4..6, 2 for
\* 7..12, 3 for 13..14 and 4 from 15 on, get_infinite_breach_multiplier(c)
\* is 2.0 exactly when c >= 15, and the substitution map calculate_win uses
\* in a free game at count c is the one apply_transformations uses at c.
C32_ThresholdFunctionsAgree ==
    LET c == arg_collector_count
    IN  /\ (returned /\ "get_active_transformations" \in threshold_calls) =>
               applied_transformations = active_transformations
        /\ "calculate_transformation_level" \in threshold_calls =>
               /\ level_returned = StatedLevel(c)
               /\ returned => Len(applied_transformations) = level_returned
        /\ "get_infinite_breach_multiplier" \in threshold_calls =>
               /\ breach_multiplier \in {1, 2}
               /\ breach_multiplier = 2 <=> c >= 15
        /\ ("calculate_win" \in threshold_calls /\ gametype = "freegame") =>
               /\ DOMAIN calc_transform_map = DOMAIN transform_map(c)
               /\ \A s \in DOMAIN calc_transform_map :
                      calc_transform_map[s] = transform_map(c)[s]

\* All five functions have returned for the count 15.
C32_Witness ==
    /\ component = "threshold functions"
    /\ arg_collector_count = 15
    /\ returned
    /\ gametype = "freegame"
    /\ threshold_calls = {"get_active_transformations", "calculate_transformation_level",
                          "get_infinite_breach_multiplier", "calculate_win"}
    /\ level_returned = 4
    /\ Len(applied_transformations) = 4
    /\ DOMAIN calc_transform_map = {"H4", "H3", "H2"}

(***************************************************************************)
(* The accounts of a successful GameEngine.spin.                           *)
(***************************************************************************)
\* C33: for every successful GameEngine.spin(bet), total_win is the sum of
\* the payouts of the returned win records, the balance after the spin is
\* the balance before it minus the bet plus total_win, and the returned
\* collector_count is the state's collector count after this spin's
\* collection.
C33_SpinStep ==
    \A b \in EngineBets, o \in EngineBoards :
        Spin(b, o) =>
            /\ result'.returned = "SpinResult"
            /\ result'.total_win = SumOfPayouts(result'.wins, get_payable_symbols)
            /\ balance' = balance - 10 * b + result'.total_win
            /\ result'.collector_count = collector_count'
            /\ collector_count' = collector_count + collectors_in_spin(o)

C33_SpinAccounts == [][C33_SpinStep]_vars

\* A spin returned two paying win records and collected collectors.
C33_Witness ==
    /\ component = "GameEngine"
    /\ result.returned = "SpinResult"
    /\ Cardinality({w \in result.wins : w.payout > 0}) >= 2
    /\ result.total_win > 0
    /\ result.collector_count = collector_count
    /\ collector_count > 0

\* C34: GameEngine.spin(bet) with bet greater than the current balance
\* raises ValueError and leaves the whole game state unchanged: balance,
\* current_bet, phase, collector_count, transformation_level,
\* infinite_breach_active and pending_events are as before the call, and no
\* board is drawn.
C34_RejectedStep ==
    \A b \in EngineBets :
        SpinRejected(b) =>
            /\ result'.returned = "ValueError"
            /\ UNCHANGED <<balance, current_bet, phase, collector_count,
                           transformation_level, infinite_breach_active,
                           pending_events>>
            /\ UNCHANGED spin_reels

\* A bet above the balance is never taken as a spin.
C34_OverBalanceStep ==
    \A b \in EngineBets :
        (component = "GameEngine" /\ 10 * b > balance) =>
            \A o \in EngineBoards : ~Spin(b, o)

C34_RejectedSpinChangesNothing ==
    [][C34_RejectedStep /\ C34_OverBalanceStep]_vars

\* A spin was rejected on a state that had collected collectors and held
\* pending events.
C34_Witness ==
    /\ component = "GameEngine"
    /\ result.returned = "ValueError"
    /\ calls = 2
    /\ collector_count > 0
    /\ pending_events # <<>>
    /\ balance = 15

(***************************************************************************)
(* games/meta_vault/game_override.py: calculate_wild_multiplier_total,     *)
(* called with the board as draw_board leaves it (every W, W2X and W3X     *)
(* carrying the multiplier assign_wild_multiplier gave it) and a list of   *)
(* winning positions {"reel": r, "row": w}, indexed from 0.                *)
(***************************************************************************)
\* The factor one position contributes: the multiplier of a symbol named
\* "W" that has the attribute, when it is above 1.
position_multiplier(b, pos) ==
    LET symbol == b[pos.reel + 1][pos.row + 1]
    IN  IF symbol.name = "W" /\ symbol.multiplier # 0 /\ symbol.multiplier > 1
            THEN symbol.multiplier
            ELSE 1

RECURSIVE calculate_wild_multiplier_total_from(_, _, _)
calculate_wild_multiplier_total_from(b, positions, k) ==
    IF k > Len(positions) THEN 1
    ELSE position_multiplier(b, positions[k])
         * calculate_wild_multiplier_total_from(b, positions, k + 1)

calculate_wild_multiplier_total(b, positions) ==
    calculate_wild_multiplier_total_from(b, positions, 1)

\* The boards: reels of the free game with W2X and W3X, and a reel with the
\* W of the base game.
WildBoards ==
    {b \in [1..REEL_COUNT -> {<<"W2X", "W3X", "H1", "L1">>, <<"W", "H1", "W2X", "H4">>}] :
        b[4] = b[3] /\ b[5] = b[3]}

\* The winning positions of one way through the first three reels.
WayLength == 3

WinningPositionLists ==
    {[k \in 1..WayLength |-> [reel |-> k - 1, row |-> rows[k]]] :
        rows \in [1..WayLength -> 0..(ROWS_PER_REEL - 1)]}

InitWild ==
    /\ component = "calculate_wild_multiplier_total"
    /\ EvalIdle /\ TransformIdle /\ EngineIdle
    /\ gametype = "freegame"
    /\ fs_pc = "absent"
    /\ board \in {draw_board(names) : names \in WildBoards}
    /\ raw_board = <<>>
    /\ gold_collected = 0 /\ transformed_symbols = {}
    /\ fs = 0 /\ tot_fs = 0 /\ records = <<>> /\ book_events = <<>>
    /\ GeneratorIdle /\ GridIdle /\ HarnessIdle /\ BooksIdle /\ QueueIdle
    /\ ThresholdIdle /\ EntryIdle
    /\ winning_positions \in WinningPositionLists
    /\ wild_multiplier_total = 0
    /\ wild_pc = "new"

CalculateWildMultiplierTotal ==
    /\ component = "calculate_wild_multiplier_total"
    /\ wild_pc = "new"
    /\ wild_multiplier_total' = calculate_wild_multiplier_total(board, winning_positions)
    /\ wild_pc' = "returned"
    /\ UNCHANGED <<component, gameVars, generatorVars, gridVars, harnessVars, booksVars,
                   queueVars, thresholdVars, entryVars, winning_positions>>

NextWild == CalculateWildMultiplierTotal

SpecWild == InitWild /\ [][NextWild]_vars

\* The product of the multipliers of the multiplier wilds among a list of
\* positions.
RECURSIVE ProductOfWildMultipliers(_, _, _)
ProductOfWildMultipliers(b, positions, k) ==
    IF k > Len(positions) THEN 1
    ELSE LET symbol == b[positions[k].reel + 1][positions[k].row + 1]
         IN  (IF symbol.name \in {"W2X", "W3X"} THEN symbol.multiplier ELSE 1)
             * ProductOfWildMultipliers(b, positions, k + 1)

\* C35: calculate_wild_multiplier_total returns the product of the
\* multipliers of all multiplier wilds among the winning positions: a win
\* passing through a x3 wild and a x2 wild, as assign_wild_multiplier gives
\* them to W3X and W2X symbols, returns 6.
C35_ProductOfWildMultipliers ==
    wild_pc = "returned" =>
        wild_multiplier_total = ProductOfWildMultipliers(board, winning_positions, 1)

\* What the code does on these boards: the result is 1 for every list.
C35_AlwaysOne ==
    wild_pc = "returned" => wild_multiplier_total = 1

(***************************************************************************)
(* games/meta_vault/gamestate.py: update_fs_retrigger_amt called on its    *)
(* own, on boards with up to ten scatters and budgets up to the cap.       *)
(***************************************************************************)
RetriggerBoards ==
    {b \in [1..REEL_COUNT -> {<<"S", "S", "H1", "L1">>, <<"S", "H1", "L1", "H4">>,
                              <<"H1", "L1", "H4", "H3">>}] : b[5] = b[4]}

\* Budgets a session can hold when the method is called.
RetriggerBudgets == {8, 15, 20, max_freespins - 7, max_freespins}

InitRetrigger ==
    /\ component = "update_fs_retrigger_amt"
    /\ gametype \in {"basegame", "freegame"}
    /\ fs_pc = "call"
    /\ board \in {draw_board(names) : names \in RetriggerBoards}
    /\ raw_board = <<>>
    /\ gold_collected = 0
    /\ transformed_symbols = {}
    /\ fs = 0
    /\ tot_fs \in RetriggerBudgets
    /\ records = <<>>
    /\ book_events = <<>>
    /\ EvalIdle /\ TransformIdle /\ EngineIdle
    /\ ToolIdle

\* update_fs_retrigger_amt: the budget and, when spins are added, the event
\* of fs_trigger_event.
UpdateFsRetriggerAmt ==
    /\ component = "update_fs_retrigger_amt"
    /\ fs_pc = "call"
    /\ tot_fs' = update_fs_retrigger_amt(board, gametype, tot_fs)
    /\ book_events' =
           IF spins_to_add_for(board, gametype) > 0
               THEN Append(book_events,
                           [type |-> "freeSpinRetrigger",
                            totalFs |-> update_fs_retrigger_amt(board, gametype, tot_fs)])
               ELSE book_events
    /\ fs_pc' = "returned"
    /\ UNCHANGED <<component, gametype, board, raw_board, gold_collected,
                   transformed_symbols, fs, records, evalVars, transformVars, engineVars>>
    /\ UNCHANGED toolVars

NextRetrigger == UpdateFsRetriggerAmt

SpecRetrigger == InitRetrigger /\ [][NextRetrigger]_vars

\* C36: update_fs_retrigger_amt changes nothing when the scatter count has
\* no entry in the current mode's trigger table, counts above 5 included:
\* tot_fs is unchanged and no free-spin trigger event is emitted; and a
\* retrigger never decreases tot_fs.
C36_RetriggerStep ==
    UpdateFsRetriggerAmt =>
        /\ count_special_symbols(board, "S") \notin DOMAIN freespin_triggers[gametype] =>
               /\ tot_fs' = tot_fs
               /\ book_events' = book_events
        /\ tot_fs' >= tot_fs

C36_NoEntryNoChange == [][C36_RetriggerStep]_vars

\* The method returned on a board with more than five scatters.
C36_Witness ==
    /\ component = "update_fs_retrigger_amt"
    /\ fs_pc = "returned"
    /\ count_special_symbols(board, "S") > 5
    /\ gametype = "freegame"
    /\ book_events = <<>>
    /\ tot_fs = 8

(***************************************************************************)
(* games/meta_vault/game_override.py: check_freespin_entry called on its   *)
(* own, for either value of force_freegame and of self.repeat.             *)
(***************************************************************************)
InitEntry ==
    /\ component = "check_freespin_entry"
    /\ gametype \in {"basegame", "freegame"}
    /\ fs_pc = "absent"
    /\ board \in {draw_board(names) : names \in RetriggerBoards}
    /\ raw_board = <<>>
    /\ gold_collected = 0 /\ transformed_symbols = {}
    /\ fs = 0 /\ tot_fs = 0 /\ records = <<>> /\ book_events = <<>>
    /\ EvalIdle /\ TransformIdle /\ EngineIdle
    /\ GeneratorIdle /\ GridIdle /\ HarnessIdle /\ BooksIdle /\ QueueIdle
    /\ ThresholdIdle /\ WildIdle
    /\ force_freegame \in BOOLEAN
    /\ repeat \in BOOLEAN
    /\ entry_returned = FALSE
    /\ entry_pc = "call"

CheckFreespinEntry ==
    /\ component = "check_freespin_entry"
    /\ entry_pc = "call"
    /\ entry_returned' = check_freespin_entry(board, gametype)
    /\ repeat' = repeat_after_entry(repeat, force_freegame,
                                    check_freespin_entry(board, gametype))
    /\ entry_pc' = "returned"
    /\ UNCHANGED <<component, gameVars, generatorVars, gridVars, harnessVars, booksVars,
                   queueVars, thresholdVars, wildVars, force_freegame>>

NextEntry == CheckFreespinEntry

SpecEntry == InitEntry /\ [][NextEntry]_vars

\* The smallest key of the trigger table of a mode.
LeastTrigger(gtype) ==
    CHOOSE n \in DOMAIN freespin_triggers[gtype] :
        \A other \in DOMAIN freespin_triggers[gtype] : n <= other

\* C37: check_freespin_entry returns True iff the number of scatters on
\* the board is at least the smallest key of the current mode's trigger
\* table; it sets repeat = True only when the distribution forces a free
\* game and the scatters are insufficient; when force_freegame is False it
\* never modifies repeat.
C37_EntryStep ==
    CheckFreespinEntry =>
        LET enough == ScattersOn([r \in 1..REEL_COUNT |->
                                     [row \in 1..ROWS_PER_REEL |-> board[r][row].name]])
                          >= LeastTrigger(gametype)
        IN  /\ entry_returned' = enough
            /\ repeat' # repeat => (repeat' /\ force_freegame /\ ~enough)
            /\ (force_freegame /\ ~enough) => repeat'
            /\ ~force_freegame => repeat' = repeat

C37_EntryAndRepeat == [][C37_EntryStep]_vars

\* A forced free game without enough scatters turned repeat on.
C37_Witness ==
    /\ component = "check_freespin_entry"
    /\ entry_pc = "returned"
    /\ force_freegame
    /\ ~entry_returned
    /\ repeat
    /\ gametype = "basegame"
    /\ count_special_symbols(board, "S") = 2

(***************************************************************************)
(* The level and the Infinite Breach flag against the collector count.     *)
(***************************************************************************)
\* The largest threshold that is at most c, or 0.
LargestThresholdUpTo(c) ==
    IF \E t \in {4, 7, 13, 15} : t <= c
        THEN CHOOSE t \in {4, 7, 13, 15} :
                 t <= c /\ \A u \in {4, 7, 13, 15} : u <= c => u <= t
        ELSE 0

C38_LevelFollowsCount ==
    component = "GameEngine" =>
        /\ infinite_breach_active <=> collector_count >= 15
        /\ transformation_level = LargestThresholdUpTo(collector_count)

C38_NoRevertStep ==
    /\ infinite_breach_active => infinite_breach_active'
    /\ transformation_level' >= transformation_level
    /\ collector_count' >= collector_count

\* C38: in every state reachable from a fresh GameState through
\* GameEngine.spin and add_collectors with positive counts,
\* infinite_breach_active holds iff collector_count >= 15 and
\* transformation_level is the largest threshold of {4, 7, 13, 15} that is
\* at most collector_count (0 if none); neither ever reverts.
C38_BreachAndLevelInvariant ==
    []C38_LevelFollowsCount /\ [][C38_NoRevertStep]_vars

\* The breach was unlocked by a second call that crossed 15 from a lower
\* level, by collectors a spin collected.
C38_Witness ==
    /\ component = "GameEngine"
    /\ infinite_breach_active
    /\ transformation_level = 15
    /\ calls = 2
    /\ result.returned = "SpinResult"
    /\ \E i \in 1..Len(result.events) :
          /\ result.events[i].type = "collectorCollection"
          /\ result.events[i].data.previousCount \in 4..14

(***************************************************************************)
(* The latched set of transformed symbols against the collected gold.      *)
(***************************************************************************)
\* The symbols whose configured threshold the count has reached.
ReachedByCount(gold) ==
    {s \in DOMAIN transform_thresholds : transform_thresholds[s] <= gold}

EventsFrom(events, k) == SubSeq(events, k, Len(events))

\* The order of the events one spin emitted.
SpinEventOrder(events) ==
    /\ \A j \in 1..Len(events) :
          events[j].type = "symbolTransformation" =>
              \E i \in 1..(j - 1) :
                  /\ events[i].type = "collectorCollection"
                  /\ events[i].data.newCount = events[j].data.collectorCount
    /\ \A j \in 1..Len(events) :
          (events[j].type = "symbolTransformation" /\ events[j].data.threshold = 15) =>
              /\ j < Len(events)
              /\ events[j + 1].type = "infiniteBreach"
    /\ \A j \in 1..Len(events) :
          events[j].type = "infiniteBreach" =>
              /\ j > 1
              /\ events[j - 1].type = "symbolTransformation"
              /\ events[j - 1].data.threshold = 15
    /\ \A j \in 1..Len(events) :
          events[j].type = "win" =>
              \A i \in 1..Len(events) : i # j => (i < j /\ events[i].type # "win")

C40_SpinStep ==
    \A b \in EngineBets, o \in EngineBoards :
        Spin(b, o) =>
            LET emitted == EventsFrom(result'.events, Len(pending_events) + 1)
            IN  /\ phase' = "idle"
                /\ pending_events' = <<>>
                /\ Len(result'.events) >= Len(pending_events)
                /\ SubSeq(result'.events, 1, Len(pending_events)) = pending_events
                /\ SpinEventOrder(emitted)
                /\ Len(SelectSeq(emitted, IsCollection))
                       = (IF collectors_in_spin(o) > 0 THEN 1 ELSE 0)
                /\ (\E j \in 1..Len(emitted) : emitted[j].type = "win")
                       <=> result'.wins # {}

\* C40: each successful GameEngine.spin returns with phase = IDLE and an
\* empty pending_events queue, all events emitted during the spin being
\* returned in result.events in emission order: a collectorCollection event
\* precedes any symbolTransformation event of the same spin, an
\* infiniteBreach event directly follows the symbolTransformation event for
\* threshold 15, and the win event comes after all of them.
C40_SpinEventsInOrder == [][C40_SpinStep]_vars

\* A spin that collected, crossed the threshold 15 and won.
C40_Witness ==
    /\ component = "GameEngine"
    /\ result.returned = "SpinResult"
    /\ phase = "idle"
    /\ pending_events = <<>>
    /\ \E i, j \in 1..Len(result.events) :
          /\ i < j
          /\ j + 1 < Len(result.events)
          /\ result.events[i].type = "collectorCollection"
          /\ result.events[i].data.newCount >= 15
          /\ result.events[j].type = "symbolTransformation"
          /\ result.events[j].data.threshold = 15
          /\ result.events[j + 1].type = "infiniteBreach"
          /\ result.events[Len(result.events)].type = "win"

=============================================================================
